---- MODULE Spec2Model ----
(***************************************************************************)
(* Rule-based UI generator: prompt -> Intent -> UIPlan -> code text ->     *)
(* ValidationResult, and the two HTTP entry points that drive the stages.  *)
(* Texts (prompts, generated code, messages) are TLA+ strings handled      *)
(* character by character, so substring matching and the validator's       *)
(* regular expressions are computed the way the Python code computes them. *)
(***************************************************************************)
EXTENDS Integers, Sequences, FiniteSets, TLC

(***************************************************************************)
(* Text primitives (Python str / re building blocks)                       *)
(***************************************************************************)

\* F applied to the value of v; v is evaluated exactly once, however often
\* F uses its argument
Let(v, F(_)) == CHOOSE r \in {F(x) : x \in {v}} : TRUE

Min(S) == CHOOSE i \in S : \A j \in S : i <= j

\* the slice s[i-1:j] (1-based, both ends included, clipped to the text)
Sub(s, i, j) ==
    SubSeq(s, IF i < 1 THEN 1 ELSE i, IF j > Len(s) THEN Len(s) ELSE j)

\* s[i] as a one-character string ("" outside the text)
Ch(s, i) == IF i >= 1 /\ i <= Len(s) THEN SubSeq(s, i, i) ELSE ""

UpperChars == {"A","B","C","D","E","F","G","H","I","J","K","L","M",
               "N","O","P","Q","R","S","T","U","V","W","X","Y","Z"}

LowerChars == {"a","b","c","d","e","f","g","h","i","j","k","l","m",
               "n","o","p","q","r","s","t","u","v","w","x","y","z"}

DigitChars == {"0","1","2","3","4","5","6","7","8","9"}

\* regex class \w
WordChars == UpperChars \cup LowerChars \cup DigitChars \cup {"_"}

\* regex class \s and the characters str.strip() removes
SpaceChars == {" ", "\n", "\t", "\r", "\f"}

IsWord(c) == c \in WordChars

LowerChar(c) ==
    CASE c = "A" -> "a" [] c = "B" -> "b" [] c = "C" -> "c" [] c = "D" -> "d"
      [] c = "E" -> "e" [] c = "F" -> "f" [] c = "G" -> "g" [] c = "H" -> "h"
      [] c = "I" -> "i" [] c = "J" -> "j" [] c = "K" -> "k" [] c = "L" -> "l"
      [] c = "M" -> "m" [] c = "N" -> "n" [] c = "O" -> "o" [] c = "P" -> "p"
      [] c = "Q" -> "q" [] c = "R" -> "r" [] c = "S" -> "s" [] c = "T" -> "t"
      [] c = "U" -> "u" [] c = "V" -> "v" [] c = "W" -> "w" [] c = "X" -> "x"
      [] c = "Y" -> "y" [] c = "Z" -> "z" [] OTHER -> c

\* the characters of s, each replaced by Map of it (the text is split in
\* halves, so a long prompt costs no deep recursion)
MapChars(s, Map(_)) ==
    LET part[lo \in 1..(Len(s) + 1), hi \in 0..Len(s)] ==
            IF lo > hi THEN ""
            ELSE IF lo = hi THEN Map(Ch(s, lo))
            ELSE Let((lo + hi) \div 2, LAMBDA mid : part[lo, mid] \o part[mid + 1, hi])
    IN  part[1, Len(s)]

\* str.lower()
Lower(s) == MapChars(s, LowerChar)

\* s.replace(a, b) for one-character a
ReplaceChar(s, a, b) == MapChars(s, LAMBDA c : IF c = a THEN b ELSE c)

\* str.strip()
Strip(s) ==
    Let({i \in 1..Len(s) : Ch(s, i) \notin SpaceChars},
        LAMBDA keep : IF keep = {} THEN ""
                      ELSE SubSeq(s, Min(keep), CHOOSE i \in keep : \A j \in keep : i >= j))

\* sub in s
Contains(s, sub) ==
    \E i \in 1..(Len(s) - Len(sub) + 1) : SubSeq(s, i, i + Len(sub) - 1) = sub

\* s.count(c) for a one-character c
CountChar(s, c) == Cardinality({i \in 1..Len(s) : Ch(s, i) = c})

\* least position >= from whose character is in the set cs, 0 when none
NextIn(s, from, cs) ==
    Let({i \in from..Len(s) : Ch(s, i) \in cs},
        LAMBDA hits : IF hits = {} THEN 0 ELSE Min(hits))

\* end of the maximal run of characters of cs that starts at position i
\* (i - 1 when the character at i is not in cs)
RunEnd(s, i, cs) ==
    Let({j \in i..Len(s) : Ch(s, j) \notin cs},
        LAMBDA stop : IF stop = {} THEN Len(s) ELSE Min(stop) - 1)

DigitVal(c) ==
    CASE c = "0" -> 0 [] c = "1" -> 1 [] c = "2" -> 2 [] c = "3" -> 3
      [] c = "4" -> 4 [] c = "5" -> 5 [] c = "6" -> 6 [] c = "7" -> 7
      [] c = "8" -> 8 [] c = "9" -> 9

\* s * n
Repeat(s, n) ==
    LET rep[k \in 0..n] ==
            IF k = 0 THEN ""
            ELSE IF k % 2 = 0 THEN Let(rep[k \div 2], LAMBDA h : h \o h)
            ELSE rep[k - 1] \o s
    IN  rep[n]

\* the interpreter's default limit on the digits int() converts
\* (sys.int_info.default_max_str_digits of CPython)
IntMaxStrDigits == 4300

\* the exception int(s) raises for a digit string above the limit
ValueError(s) ==
    [raised  |-> "ValueError",
     message |-> "Exceeds the limit (" \o ToString(IntMaxStrDigits)
                 \o " digits) for integer string conversion: value has "
                 \o ToString(Len(s))
                 \o " digits; use sys.set_int_max_str_digits() to increase the limit"]

\* an exception left a call, in place of its result
Raised(r) == "raised" \in DOMAIN r

\* int(s) for a digit string within the limit
StrToInt(s) ==
    LET val[i \in 0..Len(s)] ==
            IF i = 0 THEN 0 ELSE val[i - 1] * 10 + DigitVal(Ch(s, i))
    IN  val[Len(s)]

\* sep.join(parts)
Join(parts, sep) ==
    Let(parts,
        LAMBDA p : LET done[k \in 0..Len(p)] ==
                           IF k = 0 THEN ""
                           ELSE IF k = 1 THEN p[1]
                           ELSE done[k - 1] \o sep \o p[k]
                   IN  done[Len(p)])

Range(q) == {q[i] : i \in 1..Len(q)}

\* the elements of q whose index passes Keep, in order
SelectIndices(q, Keep(_)) ==
    Let(SelectSeq([i \in 1..Len(q) |-> <<i, q[i]>>], LAMBDA e : Keep(e[1])),
        LAMBDA kept : [i \in 1..Len(kept) |-> kept[i][2]])

\* the elements of a sequence in first-occurrence order, duplicates dropped
Distinct(q) ==
    Let(q, LAMBDA v : SelectIndices(v, LAMBDA i : \A j \in 1..(i - 1) : v[j] # v[i]))

\* the concatenation of a sequence of sequences
Flatten(qs) ==
    Let(qs,
        LAMBDA v : LET done[k \in 0..Len(v)] ==
                           IF k = 0 THEN <<>> ELSE done[k - 1] \o v[k]
                   IN  done[Len(v)])

(***************************************************************************)
(* Lexicon: keyword tables in dict definition order                        *)
(***************************************************************************)

ACTION_TABLE ==
    << <<"create", <<"create", "make", "build", "generate", "new">> >>,
       <<"add",    <<"add", "include", "insert", "put">> >>,
       <<"modify", <<"change", "update", "modify", "edit", "alter">> >>,
       <<"remove", <<"remove", "delete", "take out", "get rid of">> >> >>

\* mutant of UI_TYPES: the table has no button category
UI_TYPES_nobutton ==
    << <<"dashboard", <<"dashboard", "overview", "summary", "analytics">> >>,
       <<"form",      <<"form", "input form", "registration", "signup", "login">> >>,
       <<"table",     <<"table", "data table", "grid", "list">> >>,
       <<"card",      <<"card", "info card", "profile card">> >>,
       <<"navbar",    <<"navbar", "navigation", "menu", "header">> >>,
       <<"sidebar",   <<"sidebar", "side menu", "drawer">> >>,
       <<"modal",     <<"modal", "dialog", "popup", "overlay">> >>,
       <<"chart",     <<"chart", "graph", "visualization", "plot">> >> >>

UI_TYPES ==
    << <<"dashboard", <<"dashboard", "overview", "summary", "analytics">> >>,
       <<"form",      <<"form", "input form", "registration", "signup", "login">> >>,
       <<"table",     <<"table", "data table", "grid", "list">> >>,
       <<"card",      <<"card", "info card", "profile card">> >>,
       <<"navbar",    <<"navbar", "navigation", "menu", "header">> >>,
       <<"sidebar",   <<"sidebar", "side menu", "drawer">> >>,
       <<"modal",     <<"modal", "dialog", "popup", "overlay">> >>,
       <<"button",    <<"button", "btn", "action button">> >>,
       <<"chart",     <<"chart", "graph", "visualization", "plot">> >> >>

COMPONENTS ==
    << <<"Button",  <<"button", "btn", "submit", "action">> >>,
       <<"Card",    <<"card", "panel", "box">> >>,
       <<"Input",   <<"input", "textbox", "field", "text field">> >>,
       <<"Table",   <<"table", "data table", "grid">> >>,
       <<"Chart",   <<"chart", "graph", "bar chart", "line chart", "pie chart">> >>,
       <<"Navbar",  <<"navbar", "navigation", "top bar", "header">> >>,
       <<"Sidebar", <<"sidebar", "side panel", "drawer">> >>,
       <<"Modal",   <<"modal", "dialog", "popup">> >> >>

LAYOUTS ==
    << <<"grid",  <<"grid", "tiles", "cards">> >>,
       <<"flex",  <<"flex", "flexible", "row", "column">> >>,
       <<"stack", <<"stack", "vertical", "horizontal">> >>,
       <<"split", <<"split", "divided", "sections">> >> >>

VARIANTS ==
    << <<"primary",   <<"primary", "main", "important">> >>,
       <<"secondary", <<"secondary", "alternate">> >>,
       <<"outline",   <<"outline", "outlined", "border">> >>,
       <<"ghost",     <<"ghost", "transparent", "minimal">> >> >>

COLORS ==
    << <<"blue",   <<"blue">> >>,
       <<"red",    <<"red", "danger", "error">> >>,
       <<"green",  <<"green", "success">> >>,
       <<"yellow", <<"yellow", "warning">> >>,
       <<"gray",   <<"gray", "grey", "neutral">> >> >>

(***************************************************************************)
(* IntentParser                                                            *)
(***************************************************************************)

\* any(keyword in text for keyword in keywords)
AnyKeyword(text, keywords) ==
    \E i \in 1..Len(keywords) : Contains(text, keywords[i])

\* indices of the table's categories that hit the text
Hits(table, text) == {i \in 1..Len(table) : AnyKeyword(text, table[i][2])}

\* "for category, keywords in table.items(): if any(...): return category",
\* with the value the caller uses when the loop falls through
FirstCategory(table, text, default) ==
    Let(Hits(table, text),
        LAMBDA hits : IF hits = {} THEN default ELSE table[Min(hits)][1])

\* mutant of _extract_action: the last category with a hit wins
_extract_action_last(text) ==
    Let(Hits(ACTION_TABLE, text),
        LAMBDA hits : IF hits = {} THEN "create"
                      ELSE ACTION_TABLE[CHOOSE i \in hits : \A j \in hits : i >= j][1])

_extract_action(text) == FirstCategory(ACTION_TABLE, text, "create")

\* mutant of _extract_ui_type: the kpi fallback is missing
_extract_ui_type_nokpi(text) ==
    Let(FirstCategory(UI_TYPES, text, ""),
        LAMBDA hit :
            IF hit # "" THEN hit
            ELSE IF Contains(text, "input") /\ Contains(text, "button") THEN "form"
            ELSE "generic")

_extract_ui_type(text) ==
    Let(FirstCategory(UI_TYPES, text, ""),
        LAMBDA hit :
            IF hit # "" THEN hit
            ELSE IF Contains(text, "input") /\ Contains(text, "button") THEN "form"
            ELSE IF Contains(text, "card") \/ Contains(text, "kpi") THEN "dashboard"
            ELSE "generic")

\* the rule of _extract_ui_type that returns for a text: the table loop, the
\* first fallback, the second fallback, or the default
UiTypeRule(text) ==
    IF FirstCategory(UI_TYPES, text, "") # "" THEN "table"
    ELSE IF Contains(text, "input") /\ Contains(text, "button") THEN "input and button"
    ELSE IF Contains(text, "card") \/ Contains(text, "kpi") THEN "card or kpi"
    ELSE "default"

\* mutant of _infer_components_from_ui_type: every type gets the generic default
_infer_components_generic(ui_type) == <<"Card">>

_infer_components_from_ui_type(ui_type) ==
    CASE ui_type = "dashboard" -> <<"Card", "Chart">>
      [] ui_type = "form"      -> <<"Input", "Button">>
      [] ui_type = "table"     -> <<"Table">>
      [] ui_type = "card"      -> <<"Card">>
      [] ui_type = "navbar"    -> <<"Navbar">>
      [] ui_type = "sidebar"   -> <<"Sidebar">>
      [] ui_type = "modal"     -> <<"Modal", "Button">>
      [] ui_type = "button"    -> <<"Button">>
      [] ui_type = "chart"     -> <<"Chart">>
      [] OTHER                 -> <<"Card">>

\* mutant of HitsInOrder: the hit categories in the order in which their
\* keywords first stand in the text
HitsInOrder_text(table, text) ==
    LET at(row) == Min({i \in 1..Len(text) :
                           \E k \in 1..Len(row[2]) :
                               Sub(text, i, i + Len(row[2][k]) - 1) = row[2][k]})
    IN  Let(SortSeq(SelectSeq(table, LAMBDA row : AnyKeyword(text, row[2])),
                    LAMBDA a, b : at(a) < at(b)),
            LAMBDA rows : [i \in 1..Len(rows) |-> rows[i][1]])

\* the hit categories of a table, in table order
HitsInOrder(table, text) ==
    Let(SelectSeq(table, LAMBDA row : AnyKeyword(text, row[2])),
        LAMBDA rows : [i \in 1..Len(rows) |-> rows[i][1]])

\* mutant of _extract_components: nothing is inferred from the ui type
_extract_components_found(text) == Distinct(HitsInOrder(COMPONENTS, text))

_extract_components(text) ==
    Let(Distinct(HitsInOrder(COMPONENTS, text)),
        LAMBDA found_components :
            IF found_components = <<>>
            THEN _infer_components_from_ui_type(_extract_ui_type(text))
            ELSE found_components)

\* mutant of _extract_layout: the layout table is never consulted
_extract_layout_default(text) == "flex"

_extract_layout(text) == FirstCategory(LAYOUTS, text, "flex")

\* re.findall(r'\b(\d+)\b', text): start positions of the digit runs that
\* have no word character on either side
NumberStarts(text) ==
    {i \in 1..Len(text) :
        /\ Ch(text, i) \in DigitChars
        /\ ~IsWord(Ch(text, i - 1))
        /\ ~IsWord(Ch(text, RunEnd(text, i, DigitChars) + 1))}

\* int(numbers[0]): the value, or the exception of a number with too many
\* digits; value 0 stands for "no number found" only inside this module
FirstNumber(text) ==
    Let(NumberStarts(text),
        LAMBDA numbers :
            IF numbers = {} THEN [found |-> FALSE, value |-> 0]
            ELSE Let(SubSeq(text, Min(numbers), RunEnd(text, Min(numbers), DigitChars)),
                     LAMBDA digits :
                         IF Len(digits) > IntMaxStrDigits THEN ValueError(digits)
                         ELSE [found |-> TRUE, value |-> StrToInt(digits)]))

\* the modifiers dict, or the exception raised while it was being filled
_extract_modifiers(text) ==
    Let([variant |-> FirstCategory(VARIANTS, text, ""),
         color   |-> FirstCategory(COLORS, text, ""),
         size    |-> IF Contains(text, "large") \/ Contains(text, "big") THEN "large"
                     ELSE IF Contains(text, "small") \/ Contains(text, "tiny") THEN "small"
                     ELSE "",
         count   |-> FirstNumber(text)],
        LAMBDA m :
            IF Raised(m.count) THEN m.count
            ELSE [k \in {a \in {"variant", "color", "size"} : m[a] # ""}
                        \cup {a \in {"count"} : m.count.found} |->
                     IF k = "count" THEN m.count.value ELSE m[k]])

\* the exception int(s) raises for a text that is no number; s holds no
\* quote and one backslash, which repr doubles
InvalidLiteral(s) ==
    [raised  |-> "ValueError",
     message |-> "invalid literal for int() with base 10: '\\" \o s \o "'"]

\* the copy of the number rule inlined in src/planner.py,
\* src/backend/code_generator.py and src/test_pipeline.py:
\* re.findall(r'\\b(\\d+)\\b', text), where the doubled backslashes of the raw
\* string make the pattern match a backslash and "b", then (a backslash and
\* one or more "d"), then a backslash and "b"; int() of the group raises
FirstNumber_inlined(text) ==
    Let({i \in 1..Len(text) :
            /\ Sub(text, i, i + 3) = "\\b\\d"
            /\ Sub(text, RunEnd(text, i + 3, {"d"}) + 1,
                         RunEnd(text, i + 3, {"d"}) + 2) = "\\b"},
        LAMBDA starts :
            IF starts = {} THEN [found |-> FALSE, value |-> 0]
            ELSE InvalidLiteral(Sub(text, Min(starts) + 2,
                                    RunEnd(text, Min(starts) + 3, {"d"}))))

\* _extract_modifiers of the inlined copies
_extract_modifiers_inlined(text) ==
    Let([variant |-> FirstCategory(VARIANTS, text, ""),
         color   |-> FirstCategory(COLORS, text, ""),
         size    |-> IF Contains(text, "large") \/ Contains(text, "big") THEN "large"
                     ELSE IF Contains(text, "small") \/ Contains(text, "tiny") THEN "small"
                     ELSE "",
         count   |-> FirstNumber_inlined(text)],
        LAMBDA m :
            IF Raised(m.count) THEN m.count
            ELSE [k \in {a \in {"variant", "color", "size"} : m[a] # ""} |-> m[k]])

\* mutant of _calculate_confidence: the action does not count
_calculate_confidence_noaction(action, ui_type, components) ==
    Let(5 + (IF ui_type # "generic" THEN 2 ELSE 0)
          + (IF components # <<>> THEN 2 ELSE 0),
        LAMBDA score : IF score < 10 THEN score ELSE 10)

\* the score in tenths (0.5 -> 5, +0.1 -> +1, +0.2 -> +2, cap 1.0 -> 10)
_calculate_confidence(action, ui_type, components) ==
    Let(5 + (IF action # "create" THEN 1 ELSE 0)
          + (IF ui_type # "generic" THEN 2 ELSE 0)
          + (IF components # <<>> THEN 2 ELSE 0),
        LAMBDA score : IF score < 10 THEN score ELSE 10)

\* IntentParser.parse of the inlined copies: the same steps, with their own
\* _extract_modifiers
parse_inlined(user_input) ==
    Let(Let(Lower(user_input), LAMBDA lowered : Strip(lowered)),
        LAMBDA text :
            Let([action     |-> _extract_action(text),
                 ui_type    |-> _extract_ui_type(text),
                 components |-> _extract_components(text),
                 modifiers  |-> _extract_modifiers_inlined(text)],
                LAMBDA e :
                    IF Raised(e.modifiers) THEN e.modifiers
                    ELSE [primary_action |-> e.action,
                          ui_type        |-> e.ui_type,
                          components     |-> e.components,
                          layout         |-> _extract_layout(text),
                          modifiers      |-> e.modifiers,
                          confidence     |-> _calculate_confidence(e.action, e.ui_type,
                                                                   e.components)]))

\* user_input.lower().strip(), then the six extractions; an exception of
\* _extract_modifiers leaves parse
parse(user_input) ==
    Let(Let(Lower(user_input), LAMBDA lowered : Strip(lowered)),
        LAMBDA text :
            Let([action     |-> _extract_action(text),
                 ui_type    |-> _extract_ui_type(text),
                 components |-> _extract_components(text),
                 modifiers  |-> _extract_modifiers(text)],
                LAMBDA e :
                    IF Raised(e.modifiers) THEN e.modifiers
                    ELSE [primary_action |-> e.action,
                          ui_type        |-> e.ui_type,
                          components     |-> e.components,
                          layout         |-> _extract_layout(text),
                          modifiers      |-> e.modifiers,
                          confidence     |-> _calculate_confidence(e.action, e.ui_type,
                                                                   e.components)]))

(***************************************************************************)
(* Python set iteration order                                              *)
(***************************************************************************)

\* The order in which Python iterates a set of str depends on the process's
\* string-hash seed.  q lists the set's elements without duplicates; the
\* orders produced here are the rotations of q, one per seed value.
SetOrder(q, seed) ==
    Let(q, LAMBDA v : [i \in 1..Len(v) |-> v[((i - 1 + seed) % Len(v)) + 1]])

\* dict.get(key, default)
Get(d, key, default) == IF key \in DOMAIN d THEN d[key] ELSE default

(***************************************************************************)
(* Planner                                                                 *)
(***************************************************************************)

TEMPLATES ==
    [dashboard |->
        [layout |-> "grid",
         container |-> [className |-> "grid grid-cols-1 md:grid-cols-2 lg:grid-cols-3 gap-4 p-6"],
         default_components |->
            << [type |-> "Card",  count |-> 3, variant |-> "stats"],
               [type |-> "Chart", count |-> 2, variant |-> "line"] >>],
     form |->
        [layout |-> "stack",
         container |-> [className |-> "max-w-md mx-auto p-6 space-y-4"],
         default_components |->
            << [type |-> "Input",  count |-> 3],
               [type |-> "Button", count |-> 1, variant |-> "primary"] >>],
     table |->
        [layout |-> "flex",
         container |-> [className |-> "w-full p-6"],
         default_components |-> << [type |-> "Table", count |-> 1] >>],
     navbar |->
        [layout |-> "flex",
         container |-> [className |-> "w-full"],
         default_components |-> << [type |-> "Navbar", count |-> 1] >>]]

\* JSON-like values of the sample data: a string is [s |-> ...], an
\* integer [n |-> ...]; a row is the sequence of its <<key, value>> pairs in
\* dict insertion order
TableSampleData ==
    << << <<"name", [s |-> "John Doe"]>>, <<"email", [s |-> "john@example.com"]>>,
          <<"role", [s |-> "Admin"]>>, <<"status", [s |-> "Active"]>> >>,
       << <<"name", [s |-> "Jane Smith"]>>, <<"email", [s |-> "jane@example.com"]>>,
          <<"role", [s |-> "User"]>>, <<"status", [s |-> "Active"]>> >> >>

ChartSampleData ==
    << << <<"name", [s |-> "Jan"]>>, <<"value", [n |-> 400]>> >>,
       << <<"name", [s |-> "Feb"]>>, <<"value", [n |-> 300]>> >>,
       << <<"name", [s |-> "Mar"]>>, <<"value", [n |-> 600]>> >> >>

\* the base_props table of _create_component_plan; {} for an unknown kind
base_props(component_type, modifiers) ==
    CASE component_type = "Button" ->
            [variant |-> Get(modifiers, "variant", "primary"), children |-> "Click me"]
      [] component_type = "Card" ->
            [title |-> "Card Title", className |-> "p-4"]
      [] component_type = "Input" ->
            [label |-> "Input Label", placeholder |-> "Enter value..."]
      [] component_type = "Table" ->
            [columns |-> <<"Name", "Email", "Role", "Status">>, data |-> TableSampleData]
      [] component_type = "Chart" ->
            [type |-> "line", data |-> ChartSampleData]
      [] component_type = "Navbar" ->
            [brand |-> "My App", links |-> <<"Home", "About", "Contact">>]
      [] component_type = "Sidebar" ->
            [items |-> <<"Dashboard", "Profile", "Settings">>]
      [] component_type = "Modal" ->
            [title |-> "Modal Title", children |-> "Modal content goes here"]
      [] OTHER -> <<>>

\* mutant of AppliedModifiers: count is copied into props too
AppliedModifiers_all == {"variant", "color", "size", "count"}

\* the modifier keys that _create_component_plan copies into props
AppliedModifiers == {"variant", "color", "size"}

_create_component_plan(component_type, modifiers, position) ==
    Let(base_props(component_type, modifiers),
        LAMBDA base :
            [type     |-> component_type,
             props    |-> [k \in DOMAIN base \cup (AppliedModifiers \cap DOMAIN modifiers) |->
                              IF k \in AppliedModifiers \cap DOMAIN modifiers
                              THEN modifiers[k] ELSE base[k]],
             children |-> <<>>,
             position |-> position])

\* "for i in range(count)" of one default definition
\* mutant of DefaultInstances: one instance per definition, whatever its count
DefaultInstances_single(comp_def) ==
    <<_create_component_plan(comp_def.type,
                             [variant |-> Get(comp_def, "variant", "default")],
                             [row |-> 0, col |-> 0])>>

DefaultInstances(comp_def) ==
    [i \in 1..Get(comp_def, "count", 1) |->
        _create_component_plan(comp_def.type,
                               [variant |-> Get(comp_def, "variant", "default")],
                               [row |-> (i - 1) \div 3, col |-> (i - 1) % 3])]

\* mutant of _plan_components: a template's defaults win over the named
\* components
_plan_components_defaults(intent, template) ==
    IF intent.components # <<>> /\ Get(template, "default_components", <<>>) = <<>>
    THEN [idx \in 1..Len(intent.components) |->
            _create_component_plan(intent.components[idx], intent.modifiers,
                                   [row |-> (idx - 1) \div 3, col |-> (idx - 1) % 3])]
    ELSE Let(Get(template, "default_components", <<>>),
             LAMBDA defs : Flatten([d \in 1..Len(defs) |-> DefaultInstances(defs[d])]))

_plan_components(intent, template) ==
    IF intent.components # <<>>
    THEN [idx \in 1..Len(intent.components) |->
            _create_component_plan(intent.components[idx], intent.modifiers,
                                   [row |-> (idx - 1) \div 3, col |-> (idx - 1) % 3])]
    ELSE Let(Get(template, "default_components", <<>>),
             LAMBDA defs : Flatten([d \in 1..Len(defs) |-> DefaultInstances(defs[d])]))

ImportLine(comp_type) ==
    "import " \o comp_type \o " from '@/components/ui/" \o comp_type \o "';"

RechartsImport ==
    "import { LineChart, Line, BarChart, Bar, XAxis, YAxis, CartesianGrid, Tooltip } from 'recharts';"

\* mutant of _determine_imports: one line per planned component, one
\* recharts line per planned Chart
_determine_imports_each(components, seed) ==
    Flatten([i \in 1..Len(components) |->
                <<ImportLine(components[i].type)>>
                \o (IF components[i].type = "Chart" THEN <<RechartsImport>> ELSE <<>>)])

_determine_imports(components, seed) ==
    Let(SetOrder(Distinct([i \in 1..Len(components) |-> components[i].type]), seed),
        LAMBDA component_types :
            [i \in 1..Len(component_types) |-> ImportLine(component_types[i])]
            \o (IF "Chart" \in Range(component_types) THEN <<RechartsImport>> ELSE <<>>))

\* str(value) of a modifier value inside the dict rendering
ModifierRepr(modifiers, key) ==
    "'" \o key \o "': " \o
    (IF key = "count" THEN ToString(modifiers[key]) ELSE "'" \o modifiers[key] \o "'")

\* str(intent.modifiers), keys in the order _extract_modifiers inserts them
DictRepr(modifiers) ==
    Let(SelectSeq(<<"variant", "color", "size", "count">>, LAMBDA k : k \in DOMAIN modifiers),
        LAMBDA keys :
            "{" \o Join([i \in 1..Len(keys) |-> ModifierRepr(modifiers, keys[i])], ", ") \o "}")

_generate_reasoning(intent, components, seed) ==
    "Created a " \o intent.ui_type \o " layout using "
    \o ToString(Len(components)) \o " component(s): "
    \o Join(SetOrder(Distinct([i \in 1..Len(components) |-> components[i].type]), seed), ", ")
    \o ". "
    \o (IF intent.layout # "" THEN "Arranged in a " \o intent.layout \o " layout. " ELSE "")
    \o (IF DOMAIN intent.modifiers # {}
        THEN "Applied modifiers: " \o DictRepr(intent.modifiers) \o "." ELSE "")

\* mutant of SelectTemplate: an unknown ui_type falls back to the dashboard
SelectTemplate_dashboard(ui_type) ==
    IF ui_type \in DOMAIN TEMPLATES THEN TEMPLATES[ui_type] ELSE TEMPLATES["dashboard"]

\* self.TEMPLATES.get(intent.ui_type, self.TEMPLATES['form'])
SelectTemplate(ui_type) ==
    IF ui_type \in DOMAIN TEMPLATES THEN TEMPLATES[ui_type] ELSE TEMPLATES["form"]

\* mutant of create_plan: layout_type is the layout the parser found
create_plan_intent_layout(intent, seed) ==
    Let(SelectTemplate(intent.ui_type),
        LAMBDA template :
            Let(_plan_components(intent, template),
                LAMBDA components :
                    [layout_type     |-> intent.layout,
                     container_props |-> template.container,
                     components      |-> components,
                     imports         |-> _determine_imports(components, seed),
                     reasoning       |-> _generate_reasoning(intent, components, seed)]))

create_plan(intent, seed) ==
    Let(SelectTemplate(intent.ui_type),
        LAMBDA template :
            Let(_plan_components(intent, template),
                LAMBDA components :
                    [layout_type     |-> template.layout,
                     container_props |-> template.container,
                     components      |-> components,
                     imports         |-> _determine_imports(components, seed),
                     reasoning       |-> _generate_reasoning(intent, components, seed)]))

(***************************************************************************)
(* CodeGenerator                                                           *)
(***************************************************************************)

\* text.split('\n')
SplitLines(text) ==
    LET rest[from \in 1..(Len(text) + 1)] ==
            Let(NextIn(text, from, {"\n"}),
                LAMBDA nl : IF nl = 0 THEN <<Sub(text, from, Len(text))>>
                            ELSE <<Sub(text, from, nl - 1)>> \o rest[nl + 1])
    IN  rest[1]

\* ' ' * n
Spaces(n) ==
    LET pad[k \in 0..n] == IF k = 0 THEN "" ELSE " " \o pad[k - 1]
    IN  IF n <= 0 THEN "" ELSE pad[n]

_indent(text, spaces) ==
    Let([lines |-> SplitLines(text), indent |-> Spaces(spaces)],
        LAMBDA v : Join([i \in 1..Len(v.lines) |->
                            IF Strip(v.lines[i]) # "" THEN v.indent \o v.lines[i]
                            ELSE v.lines[i]],
                        "\n"))

JsonValue(v) == IF "s" \in DOMAIN v THEN "\"" \o v.s \o "\"" ELSE ToString(v.n)

JsonRow(row) ==
    "  {\n"
    \o Join([i \in 1..Len(row) |-> "    \"" \o row[i][1] \o "\": " \o JsonValue(row[i][2])],
            ",\n")
    \o "\n  }"

\* json.dumps(data, indent=2) for a list of flat dicts
JsonDumps(data) ==
    IF data = <<>> THEN "[]"
    ELSE "[\n" \o Join([i \in 1..Len(data) |-> JsonRow(data[i])], ",\n") \o "\n]"

_generate_imports(imports) == IF imports = <<>> THEN "" ELSE Join(imports, "\n")

_generate_button(props) ==
    "<Button variant=\"" \o Get(props, "variant", "primary") \o "\">"
    \o Get(props, "children", "Button") \o "</Button>"

_generate_card(props) ==
    "<Card>\n  <Card.Title>" \o Get(props, "title", "Card Title") \o "</Card.Title>\n"
    \o "  <Card.Content>\n    <p>" \o Get(props, "content", "Card content goes here.")
    \o "</p>\n  </Card.Content>\n</Card>"

_generate_input(props) ==
    "<Input label=\"" \o Get(props, "label", "Label") \o "\" placeholder=\""
    \o Get(props, "placeholder", "Enter value...") \o "\" />"

\* data_str is computed and never interpolated: the text says data={data}
\* mutant of _generate_table: the serialized rows are written into the tag
_generate_table_rows(props) ==
    LET columns  == Get(props, "columns", <<"Column 1", "Column 2">>)
        data     == Get(props, "data", <<>>)
        col_defs == Join([i \in 1..Len(columns) |->
                            "{ header: \"" \o columns[i] \o "\", accessor: \""
                            \o ReplaceChar(Lower(columns[i]), " ", "_") \o "\" }"], ", ")
        data_str == JsonDumps(data)
    IN  "<Table>\n  columns={[" \o col_defs \o "]}\n  data={" \o data_str \o "}\n/>"

_generate_table(props) ==
    LET columns  == Get(props, "columns", <<"Column 1", "Column 2">>)
        data     == Get(props, "data", <<>>)
        col_defs == Join([i \in 1..Len(columns) |->
                            "{ header: \"" \o columns[i] \o "\", accessor: \""
                            \o ReplaceChar(Lower(columns[i]), " ", "_") \o "\" }"], ", ")
        data_str == JsonDumps(data)
    IN  "<Table>\n  columns={[" \o col_defs \o "]}\n  data={data}\n/>"

_generate_chart(props) ==
    LET chart_type == Get(props, "type", "line")
        data_str   == JsonDumps(Get(props, "data", <<>>))
    IN  IF chart_type = "line" THEN "<Chart type=\"line\" data={" \o data_str \o "} />"
        ELSE IF chart_type = "bar" THEN "<Chart type=\"bar\" data={" \o data_str \o "} />"
        ELSE "<Chart type=\"line\" data={" \o data_str \o "} />"

_generate_navbar(props) ==
    LET links == Get(props, "links", <<"Home", "About">>)
    IN  "<Navbar brand=\"" \o Get(props, "brand", "Brand") \o "\">\n  "
        \o Join([i \in 1..Len(links) |-> "<Navbar.Link>" \o links[i] \o "</Navbar.Link>"], " ")
        \o "\n</Navbar>"

_generate_sidebar(props) ==
    LET items     == Get(props, "items", <<"Item 1", "Item 2">>)
        items_jsx == Join([i \in 1..Len(items) |->
                             "<Sidebar.Item>" \o items[i] \o "</Sidebar.Item>"], "\n  ")
    IN  "<Sidebar>\n  " \o items_jsx \o "\n</Sidebar>"

\* mutant of _generate_modal: the footer has no Button tags
_generate_modal_nofooter(props) ==
    "<Modal>\n  <Modal.Title>" \o Get(props, "title", "Modal Title") \o "</Modal.Title>\n"
    \o "  <Modal.Content>\n    <p>" \o Get(props, "children", "Modal content") \o "</p>\n"
    \o "  </Modal.Content>\n</Modal>"

_generate_modal(props) ==
    "<Modal>\n  <Modal.Title>" \o Get(props, "title", "Modal Title") \o "</Modal.Title>\n"
    \o "  <Modal.Content>\n    <p>" \o Get(props, "children", "Modal content") \o "</p>\n"
    \o "  </Modal.Content>\n  <Modal.Footer>\n"
    \o "    <Button variant=\"primary\">Save</Button>\n"
    \o "    <Button variant=\"secondary\">Cancel</Button>\n"
    \o "  </Modal.Footer>\n</Modal>"

_generate_component_jsx(comp_plan) ==
    LET comp_type == comp_plan.type
        props     == comp_plan.props
    IN  CASE comp_type = "Button"  -> _generate_button(props)
          [] comp_type = "Card"    -> _generate_card(props)
          [] comp_type = "Input"   -> _generate_input(props)
          [] comp_type = "Table"   -> _generate_table(props)
          [] comp_type = "Chart"   -> _generate_chart(props)
          [] comp_type = "Navbar"  -> _generate_navbar(props)
          [] comp_type = "Sidebar" -> _generate_sidebar(props)
          [] comp_type = "Modal"   -> _generate_modal(props)
          [] OTHER -> "<div>Unsupported component: " \o comp_type \o "</div>"

_generate_component(plan) ==
    LET components_jsx == Join([i \in 1..Len(plan.components) |->
                                   _generate_component_jsx(plan.components[i])], "\n")
        container_class == Get(plan.container_props, "className", "")
    IN  "export default function GeneratedComponent() {\n  return (\n    <div className=\""
        \o container_class \o "\">\n"
        \o Let(components_jsx, LAMBDA jsx : _indent(jsx, 6))
        \o "\n    </div>\n  );\n}"

generate(plan) == _generate_imports(plan.imports) \o "\n\n" \o _generate_component(plan)

(***************************************************************************)
(* CodeValidator                                                           *)
(***************************************************************************)

ALLOWED_COMPONENTS ==
    <<"Button", "Card", "Input", "Table", "Chart", "Navbar", "Sidebar", "Modal">>

REQUIRED_IMPORTS(component) ==
    "import " \o component \o " from '@/components/ui/" \o component \o "';"

html_elements == <<"div", "span", "p", "h1", "h2", "h3", "section", "article">>

\* re.findall(r'<(\w+)[^/>]*>', code): a '<', a maximal word run, then no
\* '/' before the next '>'; the scan resumes after a match (matches do not
\* overlap) and one character further after a failed attempt
FindOpenTags(code) ==
    LET scan[from \in 1..(Len(code) + 2)] ==
            Let(NextIn(code, from, {"<"}),
                LAMBDA lt :
                    IF lt = 0 THEN <<>>
                    ELSE IF ~IsWord(Ch(code, lt + 1)) THEN scan[lt + 1]
                    ELSE Let(RunEnd(code, lt + 1, WordChars),
                             LAMBDA we :
                                 Let(NextIn(code, we + 1, {"/", ">"}),
                                     LAMBDA stop :
                                         IF stop # 0 /\ Ch(code, stop) = ">"
                                         THEN <<Sub(code, lt + 1, we)>> \o scan[stop + 1]
                                         ELSE scan[lt + 1])))
    IN  scan[1]

\* re.findall(r'</(\w+)>', code): "</", a word run, and '>' right after it
FindCloseTags(code) ==
    LET scan[from \in 1..(Len(code) + 2)] ==
            Let(NextIn(code, from, {"<"}),
                LAMBDA lt :
                    IF lt = 0 THEN <<>>
                    ELSE IF Ch(code, lt + 1) # "/" \/ ~IsWord(Ch(code, lt + 2))
                         THEN scan[lt + 1]
                    ELSE Let(RunEnd(code, lt + 2, WordChars),
                             LAMBDA we :
                                 IF Ch(code, we + 1) = ">"
                                 THEN <<Sub(code, lt + 2, we)>> \o scan[we + 2]
                                 ELSE scan[lt + 1]))
    IN  scan[1]

\* re.findall(r'<(\w+)[^>]*/>', code): a '<', a word run, and "/>" at the
\* first '>' that follows
FindSelfClosing(code) ==
    LET scan[from \in 1..(Len(code) + 2)] ==
            Let(NextIn(code, from, {"<"}),
                LAMBDA lt :
                    IF lt = 0 THEN <<>>
                    ELSE IF ~IsWord(Ch(code, lt + 1)) THEN scan[lt + 1]
                    ELSE Let(NextIn(code, lt + 1, {">"}),
                             LAMBDA gt :
                                 IF gt # 0 /\ Ch(code, gt - 1) = "/"
                                 THEN <<Sub(code, lt + 1, RunEnd(code, lt + 1, WordChars))>>
                                      \o scan[gt + 1]
                                 ELSE scan[lt + 1]))
    IN  scan[1]

\* re.findall(r'<(\w+)', code)
FindTagNames(code) ==
    LET scan[from \in 1..(Len(code) + 2)] ==
            Let(NextIn(code, from, {"<"}),
                LAMBDA lt :
                    IF lt = 0 THEN <<>>
                    ELSE IF ~IsWord(Ch(code, lt + 1)) THEN scan[lt + 1]
                    ELSE Let(RunEnd(code, lt + 1, WordChars),
                             LAMBDA we : <<Sub(code, lt + 1, we)>> \o scan[we + 1]))
    IN  scan[1]

\* list.remove(tag) when tag is in the list: drops the first occurrence
RemoveFirst(q, tag) ==
    Let(q, LAMBDA v :
        Let({i \in 1..Len(v) : v[i] = tag},
            LAMBDA at : IF at = {} THEN v
                        ELSE SubSeq(v, 1, Min(at) - 1) \o SubSeq(v, Min(at) + 1, Len(v))))

\* "for tag in self_closing: if tag in open_tags: open_tags.remove(tag)"
RemoveSelfClosing(open_tags, self_closing) ==
    Let([open_tags |-> open_tags, self_closing |-> self_closing],
        LAMBDA v : LET left[k \in 0..Len(v.self_closing)] ==
                           IF k = 0 THEN v.open_tags
                           ELSE RemoveFirst(left[k - 1], v.self_closing[k])
                   IN  left[Len(v.self_closing)])

_check_syntax(code) ==
    Let([open_tags    |-> Len(RemoveSelfClosing(FindOpenTags(code), FindSelfClosing(code))),
         close_tags   |-> Len(FindCloseTags(code)),
         open_braces  |-> CountChar(code, "{"),
         close_braces |-> CountChar(code, "}"),
         open_parens  |-> CountChar(code, "("),
         close_parens |-> CountChar(code, ")")],
        LAMBDA n :
            (IF n.open_tags # n.close_tags
             THEN <<"Mismatched JSX tags: " \o ToString(n.open_tags) \o " open, "
                    \o ToString(n.close_tags) \o " close">>
             ELSE <<>>)
            \o (IF n.open_braces # n.close_braces
                THEN <<"Mismatched braces: " \o ToString(n.open_braces) \o " open, "
                       \o ToString(n.close_braces) \o " close">>
                ELSE <<>>)
            \o (IF n.open_parens # n.close_parens
                THEN <<"Mismatched parentheses: " \o ToString(n.open_parens) \o " open, "
                       \o ToString(n.close_parens) \o " close">>
                ELSE <<>>)
            \o (IF ~Contains(code, "export default")
                THEN <<"Missing 'export default' statement">> ELSE <<>>))

\* component.split('.')[0]
BaseComponent(component) ==
    Let(NextIn(component, 1, {"."}),
        LAMBDA dot : IF dot = 0 THEN component ELSE Sub(component, 1, dot - 1))

\* mutant of _check_components: every tag name is accepted
_check_components_none(code, seed) == <<>>

_check_components(code, seed) ==
    LET components_used == SelectSeq(FindTagNames(code),
                                     LAMBDA c : c \notin Range(html_elements))
        each   == SetOrder(Distinct(components_used), seed)
    IN  Let(SelectSeq(each, LAMBDA c : BaseComponent(c) \notin Range(ALLOWED_COMPONENTS)),
            LAMBDA denied :
                [i \in 1..Len(denied) |-> "Unauthorized component used: " \o denied[i]])

_check_imports(code, seed) ==
    LET components_used ==
            Let(FindTagNames(code),
                LAMBDA found : [i \in 1..Len(found) |-> BaseComponent(found[i])])
        each == SetOrder(Distinct(components_used), seed)
    IN  Let(SelectSeq(each, LAMBDA c : /\ c \in Range(ALLOWED_COMPONENTS)
                                       /\ ~Contains(code, REQUIRED_IMPORTS(c))),
            LAMBDA missing :
                [i \in 1..Len(missing) |-> "Missing import for component: " \o missing[i]])

_check_props(code) ==
    (IF Contains(code, "style={{") \/ Contains(code, "style={")
     THEN <<"Inline styles detected - use Tailwind classes instead">> ELSE <<>>)
    \o (IF ~Contains(code, "className=")
        THEN <<"No className detected - consider adding Tailwind classes">> ELSE <<>>)

\* re.search(r'export default function [A-Z]\w+', code)
HasPascalCaseExport(code) ==
    \E i \in 1..Len(code) :
        /\ Sub(code, i, i + 23) = "export default function "
        /\ Ch(code, i + 24) \in UpperChars
        /\ IsWord(Ch(code, i + 25))

_check_best_practices(code) ==
    (IF Contains(code, ".map(") /\ ~Contains(code, "key=")
     THEN <<"Consider adding 'key' prop when rendering lists">> ELSE <<>>)
    \o (IF ~HasPascalCaseExport(code)
        THEN <<"Component name should be PascalCase">> ELSE <<>>)
    \o (IF Contains(code, "function") /\ Contains(code, "props.")
        THEN <<"Consider destructuring props in function signature">> ELSE <<>>)

\* re.findall(r'<Button[^>]*>', code): the matched texts
FindButtons(code) ==
    LET scan[from \in 1..(Len(code) + 2)] ==
            Let({i \in from..Len(code) : Sub(code, i, i + 6) = "<Button"},
                LAMBDA starts :
                    IF starts = {} THEN <<>>
                    ELSE Let(NextIn(code, Min(starts) + 7, {">"}),
                             LAMBDA gt : IF gt = 0 THEN <<>>
                                         ELSE <<Sub(code, Min(starts), gt)>> \o scan[gt + 1]))
    IN  scan[1]

_check_accessibility(code) ==
    Let(SelectSeq(FindButtons(code),
                  LAMBDA b : ~Contains(b, "aria-label") /\ ~Contains(b, ">")),
        LAMBDA bare : [i \in 1..Len(bare) |-> "Add aria-label or text content to buttons"])
    \o (IF Contains(code, "<img") /\ ~Contains(code, "alt=")
        THEN <<"Add alt text to images for accessibility">> ELSE <<>>)

\* mutant of ValidationResult: warnings count against validity as well
ValidationResult_strict(errors, warnings, suggestions) ==
    [is_valid    |-> Len(errors) = 0 /\ Len(warnings) = 0,
     errors      |-> errors,
     warnings    |-> warnings,
     suggestions |-> suggestions]

\* "is_valid = len(errors) == 0" and the returned ValidationResult
ValidationResult(errors, warnings, suggestions) ==
    [is_valid    |-> Len(errors) = 0,
     errors      |-> errors,
     warnings    |-> warnings,
     suggestions |-> suggestions]

validate(code, seed) ==
    Let([errors      |-> _check_syntax(code) \o _check_components(code, seed),
         warnings    |-> _check_imports(code, seed) \o _check_props(code),
         suggestions |-> _check_best_practices(code) \o _check_accessibility(code)],
        LAMBDA found : ValidationResult(found.errors, found.warnings, found.suggestions))

\* re.sub(r'(import .+)(?<!;)$', r'\1;', code, flags=re.MULTILINE) on one
\* line: "import " with at least one character after it, line not ending in ';'
FixImportLine(line) ==
    IF /\ \E i \in 1..Len(line) : Sub(line, i, i + 6) = "import " /\ i + 6 < Len(line)
       /\ Ch(line, Len(line)) # ";"
    THEN line \o ";" ELSE line

\* re.sub(r'([>}])\s*([<{])', r'\1\n\2', code)
FixSpacing(code) ==
    LET rest[from \in 1..(Len(code) + 2)] ==
            Let(NextIn(code, from, {">", "}"}),
                LAMBDA a :
                    IF a = 0 THEN Sub(code, from, Len(code))
                    ELSE Let(RunEnd(code, a + 1, SpaceChars),
                             LAMBDA b :
                                 IF Ch(code, b + 1) \in {"<", "{"}
                                 THEN Sub(code, from, a) \o "\n" \o Ch(code, b + 1)
                                      \o rest[b + 2]
                                 ELSE Sub(code, from, a) \o rest[a + 1]))
    IN  rest[1]

\* mutant of fix_common_issues: the fixer also appends a closing tag
fix_common_issues_closing(code) ==
    Let(SplitLines(code),
        LAMBDA lines :
            Let(Join([i \in 1..Len(lines) |-> FixImportLine(lines[i])], "\n"),
                LAMBDA fixed_code : FixSpacing(fixed_code) \o "\n</Table>"))

fix_common_issues(code) ==
    Let(SplitLines(code),
        LAMBDA lines :
            Let(Join([i \in 1..Len(lines) |-> FixImportLine(lines[i])], "\n"),
                LAMBDA fixed_code : FixSpacing(fixed_code)))

(***************************************************************************)
(* Request handling: POST /api/generate of src/main.py ("main") and of     *)
(* src/backend/main.py ("backend")                                         *)
(***************************************************************************)

\* largest string-hash seed tried (seeds 0..MaxHashSeed)
MaxHashSeed == 1

HashSeeds == 0..MaxHashSeed

Entries == {"main", "backend"}

ExamplePrompts ==
    {"Create a dashboard with 3 cards and 2 charts",
     "Build a login form with email and password",
     "Make a data table with 5 columns"}

\* a prompt whose number has one digit more than int() converts
LongNumberPrompt == "make " \o Repeat("9", IntMaxStrDigits + 1) \o " cards"

\* request bodies sent to the server
Prompts ==
    ExamplePrompts \cup
    {"Create a navbar with logo and menu items",
     "Add a modal with title and buttons",
     "update the login form",
     "create something generic",
     "  Show KPI numbers \n",
     "a chart before a card",
     "large red outline button",
     LongNumberPrompt,
     "",
     "  \t "}

NoIntent     == [none |-> "intent"]
NoPlan       == [none |-> "plan"]
NoValidation == [none |-> "validation"]
NoResponse   == [none |-> "response"]

\* what str(e) yields for the HTTPException caught in src/main.py: the
\* installed framework version decides ("status: detail", or nothing)
StrOfHTTPException(status_code, detail) ==
    {ToString(status_code) \o ": " \o detail, ""}

\* mutant of AfterValidate: the repair runs whatever the first validation said
AfterValidate_always(validation_result) == "repair"

\* "if not validation_result.is_valid:" decides what follows the first validate
AfterValidate(validation_result) ==
    IF ~validation_result.is_valid THEN "repair" ELSE "respond"

\* mutant of Repair: the second validate is given the text from before the fix
Repair_stale(code, seed) ==
    [code |-> fix_common_issues(code), validated |-> code,
     validation_result |-> validate(code, seed)]

\* "code = fix_common_issues(code); validation_result = validate(code)"
Repair(code, seed) ==
    Let(fix_common_issues(code),
        LAMBDA fixed : [code |-> fixed, validated |-> fixed,
                        validation_result |-> validate(fixed, seed)])

GenerateResponse(code, plan, validation_result) ==
    [status      |-> 200,
     code        |-> code,
     explanation |-> plan.reasoning,
     plan        |-> [layout     |-> plan.layout_type,
                      components |-> [i \in 1..Len(plan.components) |->
                                         [type  |-> plan.components[i].type,
                                          props |-> plan.components[i].props]],
                      imports    |-> plan.imports],
     validation  |-> [is_valid    |-> validation_result.is_valid,
                      errors      |-> validation_result.errors,
                      warnings    |-> validation_result.warnings,
                      suggestions |-> validation_result.suggestions]]

HTTPException(status_code, detail) == [status |-> status_code, detail |-> detail]

VARIABLES
    hashSeed,           \* the process's string-hash seed (fixed at start)
    entry,              \* which server file handles the request
    request,            \* the request body (prompt)
    pc,                 \* the handler's position
    prompt,             \* request.prompt.strip()
    intent,
    plan,
    code,
    validation_result,
    validated,          \* history: the text the last validate call was given
    trace,              \* history: the stage calls made for this request
    response,
    heap,               \* the dict objects: heap[a] holds the items of the dict at address a
    calls,              \* history: the create_plan calls of a caller of the planner,
                        \* each with the plan, what it held on return, and the
                        \* number of assignments made before it
    edits,              \* history: how many item assignments that caller has made
    running,            \* the requests a server handles at the same time: each one's
                        \* position, body, and the response sent to its client;
                        \* history: the responses that body gets when run alone,
                        \* and whether another request was under way when it ended
    frames              \* the local variables of the handler calls in progress

vars == <<hashSeed, entry, request, pc, prompt, intent, plan, code,
          validation_result, validated, trace, response, heap, calls, edits,
          running, frames>>

\* what the request handler and the single stages leave alone
apart == <<heap, calls, edits, running, frames>>

\* the container dicts of Planner.TEMPLATES, created with the class: the
\* container of the i-th template is the object at address i
TemplateNames == <<"dashboard", "form", "table", "navbar">>

ClassHeap == [i \in 1..Len(TemplateNames) |-> TEMPLATES[TemplateNames[i]].container]

ClassLoaded ==
    /\ heap = ClassHeap /\ calls = <<>> /\ edits = 0
    /\ running = <<>> /\ frames = <<>>

Locals(p, i, pl, c, v, on, t, r) ==
    /\ prompt' = p /\ intent' = i /\ plan' = pl /\ code' = c
    /\ validation_result' = v /\ validated' = on /\ trace' = t /\ response' = r

Init ==
    /\ hashSeed \in HashSeeds
    /\ entry = "main"
    /\ request = [prompt |-> ""]
    /\ pc = "idle"
    /\ prompt = "" /\ intent = NoIntent /\ plan = NoPlan /\ code = ""
    /\ validation_result = NoValidation /\ validated = "" /\ trace = <<>>
    /\ response = NoResponse
    /\ ClassLoaded

\* a POST /api/generate arrives at one of the two servers
Receive ==
    /\ pc \in {"idle", "done"}
    /\ \E e \in Entries, p \in Prompts :
          /\ entry' = e
          /\ request' = [prompt |-> p]
    /\ pc' = "check"
    /\ Locals("", NoIntent, NoPlan, "", NoValidation, "", <<>>, NoResponse)
    /\ UNCHANGED hashSeed
    /\ UNCHANGED apart

\* prompt = request.prompt.strip(); if not prompt: raise HTTPException(400).
\* src/backend/main.py re-raises it ("except HTTPException: raise");
\* src/main.py raises it inside "try ... except Exception", which turns it
\* into a 500
CheckPrompt ==
    /\ pc = "check"
    /\ prompt' = Strip(request.prompt)
    /\ IF prompt' # ""
       THEN /\ pc' = "parse"
            /\ response' = response
       ELSE /\ pc' = "done"
            /\ IF entry = "backend"
               THEN response' = HTTPException(400, "Prompt cannot be empty")
               ELSE \E d \in StrOfHTTPException(400, "Prompt cannot be empty") :
                        response' = HTTPException(500, d)
    /\ UNCHANGED <<hashSeed, entry, request, intent, plan, code,
                   validation_result, validated, trace>>
    /\ UNCHANGED apart

\* intent = intent_parser.parse(prompt); an exception of the call reaches
\* "except Exception as e: raise HTTPException(status_code=500, detail=str(e))"
Parse ==
    /\ pc = "parse"
    /\ trace' = Append(trace, "parse")
    /\ \E r \in {parse(prompt)} :
           IF Raised(r)
           THEN /\ intent' = intent
                /\ response' = HTTPException(500, r.message)
                /\ pc' = "done"
           ELSE /\ intent' = r
                /\ response' = response
                /\ pc' = "plan"
    /\ UNCHANGED <<hashSeed, entry, request, prompt, plan, code,
                   validation_result, validated>>
    /\ UNCHANGED apart

CreatePlan ==
    /\ pc = "plan"
    /\ plan' = create_plan(intent, hashSeed)
    /\ trace' = Append(trace, "create_plan")
    /\ pc' = "generate"
    /\ UNCHANGED <<hashSeed, entry, request, prompt, intent, code,
                   validation_result, validated, response>>
    /\ UNCHANGED apart

Generate ==
    /\ pc = "generate"
    /\ code' = generate(plan)
    /\ trace' = Append(trace, "generate")
    /\ pc' = "validate"
    /\ UNCHANGED <<hashSeed, entry, request, prompt, intent, plan,
                   validation_result, validated, response>>
    /\ UNCHANGED apart

Validate ==
    /\ pc = "validate"
    /\ validation_result' = validate(code, hashSeed)
    /\ validated' = code
    /\ trace' = Append(trace, "validate")
    /\ pc' = AfterValidate(validation_result')
    /\ UNCHANGED <<hashSeed, entry, request, prompt, intent, plan, code, response>>
    /\ UNCHANGED apart

\* the single repair attempt: fix, then validate once more
RepairStep ==
    /\ pc = "repair"
    /\ \E r \in {Repair(code, hashSeed)} :
           /\ code' = r.code
           /\ validated' = r.validated
           /\ validation_result' = r.validation_result
    /\ trace' = trace \o <<"fix_common_issues", "validate">>
    /\ pc' = "respond"
    /\ UNCHANGED <<hashSeed, entry, request, prompt, intent, plan, response>>
    /\ UNCHANGED apart

Respond ==
    /\ pc = "respond"
    /\ response' = GenerateResponse(code, plan, validation_result)
    /\ pc' = "done"
    /\ UNCHANGED <<hashSeed, entry, request, prompt, intent, plan, code,
                   validation_result, validated, trace>>
    /\ UNCHANGED apart

\* the steps of the handler, which runs to completion once started
HandlerStep ==
    \/ CheckPrompt
    \/ Parse
    \/ CreatePlan
    \/ Generate
    \/ Validate
    \/ RepairStep
    \/ Respond

Next == Receive \/ HandlerStep

Spec == Init /\ [][Next]_vars

\* the server runs every started handler to its end
FairSpec == Spec /\ WF_vars(HandlerStep)

(***************************************************************************)
(* parse on its own: prompts drawn from a bounded set                      *)
(***************************************************************************)

\* most words in a drawn prompt
MaxWords == 2

Words ==
    {"Update", "create", "delete", "insert", "dashboard", "login", "kpi",
     "card", "button", "input", "chart", "something", "7"}

\* the pipeline's prompts, and the texts of up to MaxWords words
ParsePrompts ==
    Prompts \cup {Join(w, " ") : w \in UNION {[1..n -> Words] : n \in 1..MaxWords}}
            \cup {"show \\b\\dd\\b cards"}

InitParse ==
    /\ hashSeed \in HashSeeds
    /\ prompt \in ParsePrompts
    /\ pc = "prompt"
    /\ entry = "none" /\ request = [prompt |-> ""]
    /\ intent = NoIntent /\ plan = NoPlan /\ code = ""
    /\ validation_result = NoValidation /\ validated = ""
    /\ trace = <<>> /\ response = NoResponse
    /\ ClassLoaded

ParsePrompt ==
    /\ pc = "prompt"
    /\ intent' = parse(prompt)
    /\ pc' = "parsed"
    /\ UNCHANGED <<hashSeed, entry, request, prompt, plan, code,
                   validation_result, validated, trace, response>>
    /\ UNCHANGED apart

NextParse == ParsePrompt

SpecParse == InitParse /\ [][NextParse]_vars

(***************************************************************************)
(* create_plan on its own: Intents drawn from a bounded set                *)
(***************************************************************************)

\* longest components list of a drawn Intent
MaxComps == 4

\* the nine ui types of the parser's table, and its fall-through value
UiTypes == {UI_TYPES[i][1] : i \in 1..Len(UI_TYPES)} \cup {"generic"}

\* component kinds named by a drawn Intent; Widget is not a known kind
PlanKinds == {"Button", "Card", "Chart", "Widget"}

PlanModifiers ==
    {<<>>, [count |-> 3], [variant |-> "outline", count |-> 5],
     [variant |-> "ghost", color |-> "red", size |-> "large", count |-> 2]}

Intents ==
    [primary_action : {"create"},
     ui_type        : UiTypes,
     components     : UNION {[1..n -> PlanKinds] : n \in 0..MaxComps},
     layout         : {"flex"},
     modifiers      : PlanModifiers,
     confidence     : {7}]

\* no request is being handled
Offline ==
    /\ entry = "none" /\ request = [prompt |-> ""] /\ prompt = ""
    /\ trace = <<>> /\ response = NoResponse

InitPlan ==
    /\ hashSeed \in HashSeeds
    /\ intent \in Intents
    /\ pc = "intent"
    /\ plan = NoPlan /\ code = "" /\ validation_result = NoValidation /\ validated = ""
    /\ Offline
    /\ ClassLoaded

PlanIntent ==
    /\ pc = "intent"
    /\ plan' = create_plan(intent, hashSeed)
    /\ pc' = "planned"
    /\ UNCHANGED <<hashSeed, entry, request, prompt, intent, code,
                   validation_result, validated, trace, response>>
    /\ UNCHANGED apart

NextPlan == PlanIntent

SpecPlan == InitPlan /\ [][NextPlan]_vars

(***************************************************************************)
(* plan, generate, validate for every combination of component kinds       *)
(***************************************************************************)

\* the non-empty lists of distinct kinds, in the order parse finds them
KindLists ==
    {SelectSeq(ALLOWED_COMPONENTS, LAMBDA k : k \in S) :
        S \in (SUBSET {ALLOWED_COMPONENTS[i] : i \in 1..Len(ALLOWED_COMPONENTS)}) \ {{}}}

\* Intents of prompts that name a dashboard and the kinds of a list
KindIntents ==
    [primary_action : {"create"},
     ui_type        : {"dashboard"},
     components     : KindLists,
     layout         : {"flex"},
     modifiers      : {<<>>},
     confidence     : {9}]

\* the Intents that agree with an Intent on ui_type, components and the
\* variant, color and size modifiers
Alike(i) ==
    Let([k \in DOMAIN i.modifiers \cup {"count"} |->
            IF k = "count" THEN 4 ELSE i.modifiers[k]],
        LAMBDA counted :
            {[i EXCEPT !.primary_action = "modify"],
             [i EXCEPT !.layout = "split"],
             [i EXCEPT !.confidence = 10],
             [i EXCEPT !.modifiers = counted],
             [i EXCEPT !.primary_action = "modify", !.layout = "split",
                       !.confidence = 10, !.modifiers = counted]})

InitGenerate ==
    /\ hashSeed \in HashSeeds
    /\ intent \in KindIntents
    /\ pc = "intent"
    /\ plan = NoPlan /\ code = "" /\ validation_result = NoValidation /\ validated = ""
    /\ Offline
    /\ ClassLoaded

GeneratePlanned ==
    /\ pc = "planned"
    /\ code' = generate(plan)
    /\ pc' = "generated"
    /\ UNCHANGED <<hashSeed, entry, request, prompt, intent, plan,
                   validation_result, validated, trace, response>>
    /\ UNCHANGED apart

ValidateGenerated ==
    /\ pc = "generated"
    /\ validation_result' = validate(code, hashSeed)
    /\ validated' = code
    /\ pc' = "checked"
    /\ UNCHANGED <<hashSeed, entry, request, prompt, intent, plan, code, trace, response>>
    /\ UNCHANGED apart

NextGenerate == PlanIntent \/ GeneratePlanned \/ ValidateGenerated

SpecGenerate == InitGenerate /\ [][NextGenerate]_vars

(***************************************************************************)
(* A caller of the planner that keeps the plans and assigns to their dicts *)
(***************************************************************************)

MaxCalls == 2

MaxEdits == 2

\* the prompts whose Intents the caller plans: a dashboard template, the
\* fallback to the form template, the table template
FramePrompts == {"Create a dashboard card", "Add a blue button", "Show a data table"}

FrameIntents == {parse(p) : p \in FramePrompts}

\* the keys the caller assigns: one every container has, one no dict has
EditKeys == {"className", "extra"}

\* template = self.TEMPLATES.get(intent.ui_type, self.TEMPLATES['form']):
\* the address of template['container']
ContainerAddress(ui_type) ==
    Let(IF ui_type \in DOMAIN TEMPLATES THEN ui_type ELSE "form",
        LAMBDA name : CHOOSE i \in 1..Len(TemplateNames) : TemplateNames[i] = name)

\* mutant of DictCopy: no copy, the dict itself is handed on
DictCopy_alias(h, a) == [heap |-> h, address |-> a]

\* d.copy(): a new object with the items of the dict at address a
DictCopy(h, a) == [heap |-> Append(h, h[a]), address |-> Len(h) + 1]

\* d[key] = value
DictSet(d, key, value) == [k \in DOMAIN d \cup {key} |-> IF k = key THEN value ELSE d[k]]

\* create_plan on the heap h: container_props is the copy of the template's
\* container; the props of a component are a copy of a dict of the
\* base_props display, which _create_component_plan builds anew in every
\* call, so each is a new object. The plan holds the addresses.
create_plan_on(h, i, seed) ==
    Let(create_plan(i, seed),
        LAMBDA p :
            Let(DictCopy(h, ContainerAddress(i.ui_type)),
                LAMBDA c :
                    [heap |-> c.heap \o [k \in 1..Len(p.components) |-> p.components[k].props],
                     plan |-> [p EXCEPT
                                 !.container_props = c.address,
                                 !.components =
                                     [k \in 1..Len(p.components) |->
                                         [p.components[k] EXCEPT !.props = Len(c.heap) + k]]]]))

\* what the caller reads through a plan
Deref(h, p) ==
    [container_props |-> h[p.container_props],
     props |-> [k \in 1..Len(p.components) |-> h[p.components[k].props]]]

\* the addresses of the dicts a plan hands to the caller
PlanDicts(p) ==
    {p.container_props} \cup {p.components[k].props : k \in 1..Len(p.components)}

InitFrame ==
    /\ hashSeed \in HashSeeds
    /\ pc = "caller"
    /\ intent = NoIntent /\ plan = NoPlan /\ code = ""
    /\ validation_result = NoValidation /\ validated = ""
    /\ Offline
    /\ ClassLoaded

\* plan = planner.create_plan(intent); the caller keeps the plan
CallCreatePlan ==
    /\ Len(calls) < MaxCalls
    /\ \E i \in FrameIntents :
          \E r \in {create_plan_on(heap, i, hashSeed)} :
              /\ heap' = r.heap
              /\ calls' = Append(calls, [intent   |-> i,
                                         plan     |-> r.plan,
                                         returned |-> Deref(r.heap, r.plan),
                                         edits    |-> edits])
    /\ UNCHANGED <<hashSeed, entry, request, pc, prompt, intent, plan, code,
                   validation_result, validated, trace, response, edits,
                   running, frames>>

\* plan.container_props[key] = ... or plan.components[k].props[key] = ...
CallerEdit ==
    /\ edits < MaxEdits
    /\ \E n \in 1..Len(calls) :
          \E a \in PlanDicts(calls[n].plan), key \in EditKeys :
              heap' = [heap EXCEPT ![a] = DictSet(heap[a], key, "edited")]
    /\ edits' = edits + 1
    /\ UNCHANGED <<hashSeed, entry, request, pc, prompt, intent, plan, code,
                   validation_result, validated, trace, response, calls,
                   running, frames>>

NextFrame == CallCreatePlan \/ CallerEdit

SpecFrame == InitFrame /\ [][NextFrame]_vars

(***************************************************************************)
(* Several requests at a time on the module-level instances                *)
(***************************************************************************)

MaxRequests == 2

Requests == 1..MaxRequests

\* bodies of the concurrent requests: one that validates, one that takes
\* the repair, one that is rejected
ConcurrentPrompts == <<"Add a button", "Add a card", "">>

\* the responses a request can get when the server handles nothing else
RunAlone(e, body, seed) ==
    Let(Strip(body),
        LAMBDA p :
            IF p = ""
            THEN IF e = "backend"
                 THEN {HTTPException(400, "Prompt cannot be empty")}
                 ELSE {HTTPException(500, d) :
                          d \in StrOfHTTPException(400, "Prompt cannot be empty")}
            ELSE Let(parse(p),
                LAMBDA i :
                    IF Raised(i) THEN {HTTPException(500, i.message)}
                    ELSE Let(create_plan(i, seed),
                        LAMBDA pl :
                            Let(generate(pl),
                                LAMBDA c :
                                    Let(validate(c, seed),
                                        LAMBDA v :
                                            IF AfterValidate(v) = "repair"
                                            THEN Let(Repair(c, seed),
                                                     LAMBDA r : {GenerateResponse(r.code, pl, r.validation_result)})
                                            ELSE {GenerateResponse(c, pl, v)})))))

\* mutant of FrameOf: the locals are kept in one place shared by all calls
FrameOf_shared(r) == 1

\* prompt, intent, plan, code and validation_result are local variables of
\* the handler: each call has its own frame
FrameOf(r) == r

NoFrame ==
    [prompt |-> "", intent |-> NoIntent, plan |-> NoPlan, code |-> "",
     validation_result |-> NoValidation]

InitConcurrent ==
    /\ hashSeed \in HashSeeds
    /\ entry \in Entries
    /\ request = [prompt |-> ""]
    /\ pc = "serving"
    /\ prompt = "" /\ intent = NoIntent /\ plan = NoPlan /\ code = ""
    /\ validation_result = NoValidation /\ validated = "" /\ trace = <<>>
    /\ response = NoResponse
    /\ heap = ClassHeap /\ calls = <<>> /\ edits = 0
    \* the requests are interchangeable: they are numbered in the order of
    \* their bodies in ConcurrentPrompts
    /\ \E sent \in [Requests -> 1..Len(ConcurrentPrompts)] :
          /\ \A r \in Requests \ {1} : sent[r - 1] <= sent[r]
          /\ running = [r \in Requests |->
                          [pc         |-> "check",
                           body       |-> ConcurrentPrompts[sent[r]],
                           alone      |-> RunAlone(entry, ConcurrentPrompts[sent[r]], hashSeed),
                           overlapped |-> FALSE,
                           response   |-> NoResponse]]
    /\ frames = [f \in Requests |-> NoFrame]

\* another request is between its first and its last step
Overlaps(r) == \E o \in Requests \ {r} : running[o].pc \notin {"check", "done"}

\* request r goes on to position to; sent is the response its handler call
\* ends with, if it ends
Advance(r, to, sent) ==
    running' = [running EXCEPT ![r] = [pc         |-> to,
                                       body       |-> @.body,
                                       alone      |-> @.alone,
                                       overlapped |-> to = "done" /\ Overlaps(r),
                                       response   |-> sent]]

Others == <<hashSeed, entry, request, pc, prompt, intent, plan, code,
            validation_result, validated, trace, response, heap, calls, edits>>

CheckPromptOf(r) ==
    /\ running[r].pc = "check"
    /\ \E p \in {Strip(running[r].body)} :
          /\ frames' = [frames EXCEPT ![FrameOf(r)].prompt = p]
          /\ IF p # ""
             THEN Advance(r, "parse", NoResponse)
             ELSE IF entry = "backend"
                  THEN Advance(r, "done", HTTPException(400, "Prompt cannot be empty"))
                  ELSE \E d \in StrOfHTTPException(400, "Prompt cannot be empty") :
                           Advance(r, "done", HTTPException(500, d))
    /\ UNCHANGED Others

ParseOf(r) ==
    /\ running[r].pc = "parse"
    /\ \E i \in {parse(frames[FrameOf(r)].prompt)} :
          IF Raised(i)
          THEN /\ frames' = frames
               /\ Advance(r, "done", HTTPException(500, i.message))
          ELSE /\ frames' = [frames EXCEPT ![FrameOf(r)].intent = i]
               /\ Advance(r, "plan", NoResponse)
    /\ UNCHANGED Others

CreatePlanOf(r) ==
    /\ running[r].pc = "plan"
    /\ frames' = [frames EXCEPT ![FrameOf(r)].plan =
                              create_plan(frames[FrameOf(r)].intent, hashSeed)]
    /\ Advance(r, "generate", NoResponse)
    /\ UNCHANGED Others

GenerateOf(r) ==
    /\ running[r].pc = "generate"
    /\ frames' = [frames EXCEPT ![FrameOf(r)].code = generate(frames[FrameOf(r)].plan)]
    /\ Advance(r, "validate", NoResponse)
    /\ UNCHANGED Others

ValidateOf(r) ==
    /\ running[r].pc = "validate"
    /\ \E v \in {validate(frames[FrameOf(r)].code, hashSeed)} :
          /\ frames' = [frames EXCEPT ![FrameOf(r)].validation_result = v]
          /\ Advance(r, AfterValidate(v), NoResponse)
    /\ UNCHANGED Others

RepairOf(r) ==
    /\ running[r].pc = "repair"
    /\ \E fixed \in {Repair(frames[FrameOf(r)].code, hashSeed)} :
          frames' = [frames EXCEPT ![FrameOf(r)].code = fixed.code,
                                   ![FrameOf(r)].validation_result = fixed.validation_result]
    /\ Advance(r, "respond", NoResponse)
    /\ UNCHANGED Others

RespondOf(r) ==
    /\ running[r].pc = "respond"
    /\ \E f \in {frames[FrameOf(r)]} :
          Advance(r, "done", GenerateResponse(f.code, f.plan, f.validation_result))
    /\ frames' = frames
    /\ UNCHANGED Others

NextConcurrent ==
    \E r \in Requests :
        \/ CheckPromptOf(r)
        \/ ParseOf(r)
        \/ CreatePlanOf(r)
        \/ GenerateOf(r)
        \/ ValidateOf(r)
        \/ RepairOf(r)
        \/ RespondOf(r)

SpecConcurrent == InitConcurrent /\ [][NextConcurrent]_vars

(***************************************************************************)
(* generate for plans whose Table props a caller has set                   *)
(***************************************************************************)

MaxColumns == 2

ColumnNames == {"Name", "First Name", "E Mail  Address"}

\* values of a Table's data property
TableData ==
    {<<>>, TableSampleData,
     << << <<"name", [s |-> "Ada"]>>, <<"age", [n |-> 36]>> >> >>}

\* props of a Table: columns and data are each present or left out
TableProps ==
    LET columns == UNION {[1..n -> ColumnNames] : n \in 0..MaxColumns}
    IN  {[columns |-> c, data |-> d] : c \in columns, d \in TableData}
        \cup {[columns |-> c] : c \in columns}
        \cup {[data |-> d] : d \in TableData}
        \cup {<<>>}

\* the plan of a table Intent, its one Table given the props
TablePlan(props, seed) ==
    Let(create_plan([primary_action |-> "create", ui_type |-> "table",
                     components |-> <<"Table">>, layout |-> "flex",
                     modifiers |-> <<>>, confidence |-> 9], seed),
        LAMBDA p : [p EXCEPT !.components[1].props = props])

InitTable ==
    /\ hashSeed \in HashSeeds
    /\ \E props \in TableProps : plan = TablePlan(props, hashSeed)
    /\ pc = "table"
    /\ intent = NoIntent /\ code = "" /\ validation_result = NoValidation /\ validated = ""
    /\ Offline
    /\ ClassLoaded

GenerateTable ==
    /\ pc = "table"
    /\ code' = generate(plan)
    /\ pc' = "rendered"
    /\ UNCHANGED <<hashSeed, entry, request, prompt, intent, plan,
                   validation_result, validated, trace, response>>
    /\ UNCHANGED apart

NextTable == GenerateTable

SpecTable == InitTable /\ [][NextTable]_vars

(***************************************************************************)
(* validate on its own: code texts drawn from a bounded set                *)
(***************************************************************************)

\* most markup fragments in a drawn code text
MaxFragments == 2

Fragments ==
    {"<Foo>x</Foo>", "<Card.Title>T</Card.Title>", "<Widget />",
     "<span>s</span>", "<Button>Go</Button>", "<Button></Button>", "<ul>"}

\* a code text: the fragments on lines of their own, optionally inside an
\* exported component, optionally after the Button import line
CodeText(fragments, exported, imported) ==
    (IF imported THEN REQUIRED_IMPORTS("Button") \o "\n\n" ELSE "")
    \o (IF exported
        THEN "export default function View() {\n  return (\n    <div className=\"p-4\">\n"
             \o Join(fragments, "\n") \o "\n    </div>\n  );\n}"
        ELSE Join(fragments, "\n"))

CodeTexts ==
    {CodeText(f, e, i) : f \in UNION {[1..n -> Fragments] : n \in 0..MaxFragments},
                         e \in BOOLEAN, i \in BOOLEAN}

InitValidate ==
    /\ hashSeed \in HashSeeds
    /\ code \in CodeTexts
    /\ pc = "text"
    /\ intent = NoIntent /\ plan = NoPlan
    /\ validation_result = NoValidation /\ validated = ""
    /\ Offline
    /\ ClassLoaded

ValidateText ==
    /\ pc = "text"
    /\ validation_result' = validate(code, hashSeed)
    /\ validated' = code
    /\ pc' = "validated"
    /\ UNCHANGED <<hashSeed, entry, request, prompt, intent, plan, code, trace, response>>
    /\ UNCHANGED apart

NextValidate == ValidateText

SpecValidate == InitValidate /\ [][NextValidate]_vars

(***************************************************************************)
(* Properties of the request handling (Spec, FairSpec)                     *)
(***************************************************************************)

DashboardPrompt == "Create a dashboard with 3 cards and 2 charts"

FirstPass == <<"parse", "create_plan", "generate", "validate">>

WithRepair == FirstPass \o <<"fix_common_issues", "validate">>

IsPrefix(q, r) == Len(q) <= Len(r) /\ q = Sub(r, 1, Len(q))

Count(q, e) == Cardinality({i \in 1..Len(q) : q[i] = e})

\* C1: for the three example prompts (dashboard, login form, data table) the
\* first validation of the generated code reports is_valid = TRUE and no
\* errors.
C1_ExamplePromptsValid ==
    (request.prompt \in ExamplePrompts /\ trace = FirstPass)
        => (validation_result.is_valid /\ validation_result.errors = <<>>)

\* C2 as claimed: parsing the dashboard prompt gives action create, type
\* dashboard, components [Card, Chart], layout flex and modifiers {count: 3}.
C2_DashboardIntentFlex ==
    (request.prompt = DashboardPrompt /\ trace # <<>>)
        => /\ intent.primary_action = "create"
           /\ intent.ui_type = "dashboard"
           /\ intent.components = <<"Card", "Chart">>
           /\ intent.layout = "flex"
           /\ intent.modifiers = [count |-> 3]

\* C2 as amended: parsing the dashboard prompt gives action create, type
\* dashboard, components [Card, Chart], layout grid ("cards" is a trigger of
\* the grid layout) and modifiers {count: 3}.
C2_DashboardIntentGrid ==
    (request.prompt = DashboardPrompt /\ trace # <<>>)
        => /\ intent.primary_action = "create"
           /\ intent.ui_type = "dashboard"
           /\ intent.components = <<"Card", "Chart">>
           /\ intent.layout = "grid"
           /\ intent.modifiers = [count |-> 3]

C2_Witness ==
    /\ request.prompt = DashboardPrompt
    /\ pc = "plan"
    /\ trace = <<"parse">>
    /\ intent.ui_type = "dashboard"

FixCalled == Count(trace', "fix_common_issues") > Count(trace, "fix_common_issues")

\* C4: the stages of a request run in the order parse, create_plan, generate,
\* validate; fix_common_issues is called at most once, only right after a
\* first validation that was invalid, and is followed by exactly one more
\* validate; there are never more than two validations; and every started
\* request reaches its response.
C4_SingleRepair ==
    /\ [](/\ IsPrefix(trace, WithRepair)
          /\ Count(trace, "fix_common_issues") <= 1
          /\ Count(trace, "validate") <= 2
          /\ (pc = "respond" \/ (pc = "done" /\ response.status = 200))
                => trace \in {FirstPass, WithRepair})
    /\ [][FixCalled => (trace = FirstPass /\ ~validation_result.is_valid
                        /\ trace' = WithRepair)]_vars
    /\ ((pc = "check") ~> (pc = "done" /\ response # NoResponse))

C4_Witness ==
    /\ pc = "done"
    /\ response.status = 200
    /\ trace = WithRepair

\* C5: the validation summary of a response is the result of validate on
\* exactly the code text of that response; after a repair the validation was
\* computed on the repaired text.
C5_ValidationOfReturnedCode ==
    (pc = "done" /\ response.status = 200)
        => /\ validated = response.code
           /\ response.validation = validate(response.code, hashSeed)

C5_Witness ==
    /\ pc = "done"
    /\ response.status = 200
    /\ trace = WithRepair
    /\ response.code # generate(plan)

\* C6: in both entry points an empty or whitespace-only prompt is answered
\* with the 400 "Prompt cannot be empty" error and no stage is called.
C6_EmptyPromptRejected ==
    (pc = "done" /\ Strip(request.prompt) = "")
        => /\ response = HTTPException(400, "Prompt cannot be empty")
           /\ trace = <<>>

(***************************************************************************)
(* Properties of create_plan (SpecPlan)                                    *)
(***************************************************************************)

\* C3: for an Intent with a non-empty components list the plan has exactly
\* one ComponentPlan per named component, in the same order, the k-th
\* (0-based) at row k div 3, col k mod 3; neither the template's default
\* counts nor modifiers.count change the number of planned components.
C3_OnePlanPerNamedComponent ==
    (pc = "planned" /\ intent.components # <<>>)
        => /\ Len(plan.components) = Len(intent.components)
           /\ \A k \in 0..(Len(intent.components) - 1) :
                  /\ plan.components[k + 1].type = intent.components[k + 1]
                  /\ plan.components[k + 1].position = [row |-> k \div 3, col |-> k % 3]

C3_Witness ==
    /\ pc = "planned"
    /\ intent.ui_type = "dashboard"
    /\ intent.components = <<"Card", "Chart", "Card", "Chart">>
    /\ intent.modifiers = [count |-> 3]
    /\ Len(plan.components) = 4
    /\ plan.components[4].position = [row |-> 1, col |-> 0]

\* C7: an Intent whose ui_type is not dashboard, form, table or navbar is
\* planned with the form template: layout_type is 'stack' and
\* container_props is the form template's container.
C7_UnknownTypeUsesFormTemplate ==
    (pc = "planned" /\ intent.ui_type \notin {"dashboard", "form", "table", "navbar"})
        => /\ plan.layout_type = "stack"
           /\ plan.container_props = [className |-> "max-w-md mx-auto p-6 space-y-4"]

C7_Witness ==
    /\ pc = "planned"
    /\ intent.ui_type = "modal"
    /\ plan.layout_type = "stack"

\* the component kinds of a plan
PlannedKinds == {plan.components[i].type : i \in 1..Len(plan.components)}

\* C8: the imports of a plan are, without duplicates, one per-kind import
\* line for each distinct planned kind and nothing for other kinds, plus
\* exactly one recharts line if and only if Chart is a planned kind, however
\* many Charts are planned; their number is the number of distinct kinds
\* plus one when Chart is planned.
C8_ImportsPerDistinctKind ==
    (pc = "planned")
        => /\ \A i, j \in 1..Len(plan.imports) : plan.imports[i] = plan.imports[j] => i = j
           /\ {plan.imports[i] : i \in 1..Len(plan.imports)}
                 = {"import " \o k \o " from '@/components/ui/" \o k \o "';" : k \in PlannedKinds}
                   \cup (IF "Chart" \in PlannedKinds
                         THEN {"import { LineChart, Line, BarChart, Bar, XAxis, YAxis, CartesianGrid, Tooltip } from 'recharts';"}
                         ELSE {})
           /\ Len(plan.imports)
                 = Cardinality(PlannedKinds) + (IF "Chart" \in PlannedKinds THEN 1 ELSE 0)

C8_Witness ==
    /\ pc = "planned"
    /\ intent.components = <<"Chart", "Card", "Chart">>
    /\ Len(plan.imports) = 3

(***************************************************************************)
(* Properties of validate (SpecValidate)                                   *)
(***************************************************************************)

\* the name of the tag opened at position i of the validated text ("" when
\* no tag opens there): the word characters that follow the '<'
TagNameAt(i) ==
    IF Ch(validated, i) = "<"
    THEN SubSeq(validated, i + 1,
                CHOOSE j \in i..Len(validated) :
                    /\ \A m \in (i + 1)..j : Ch(validated, m) \in WordChars
                    /\ Ch(validated, j + 1) \notin WordChars)
    ELSE ""

\* C9: when the validated text has a tag whose name is neither a plain
\* markup name nor one of the eight allowed kinds, the result is invalid and
\* some error names that tag; a dotted tag such as Card.Title whose base
\* name is an allowed kind gets no unauthorized-component error.
C9_UnknownTagIsAnError ==
    (pc = "validated")
        => \A i \in 1..Len(validated) :
              /\ (/\ TagNameAt(i) # ""
                  /\ TagNameAt(i) \notin {"div", "span", "p", "h1", "h2", "h3", "section", "article"}
                  /\ TagNameAt(i) \notin {"Button", "Card", "Input", "Table", "Chart",
                                          "Navbar", "Sidebar", "Modal"})
                    => /\ validation_result.is_valid = FALSE
                       /\ \E e \in 1..Len(validation_result.errors) :
                              Contains(validation_result.errors[e], TagNameAt(i))
              /\ (/\ TagNameAt(i) \in {"Button", "Card", "Input", "Table", "Chart",
                                        "Navbar", "Sidebar", "Modal"}
                  /\ Ch(validated, i + 1 + Len(TagNameAt(i))) = ".")
                    => \A e \in 1..Len(validation_result.errors) :
                          ~Contains(validation_result.errors[e],
                                    "Unauthorized component used: " \o TagNameAt(i))

C9_Witness ==
    /\ pc = "validated"
    /\ Contains(validated, "<Foo>")
    /\ Contains(validated, "<Card.Title>")
    /\ validation_result.is_valid = FALSE
    /\ \E e \in 1..Len(validation_result.errors) :
           validation_result.errors[e] = "Unauthorized component used: Foo"

\* C10: a ValidationResult has is_valid = TRUE exactly when its errors list
\* is empty, whatever its warnings and suggestions are.
C10_ValidIffNoErrors ==
    (pc = "validated")
        => (validation_result.is_valid = TRUE <=> validation_result.errors = <<>>)

C10_Witness ==
    /\ pc = "validated"
    /\ validation_result.is_valid = TRUE
    /\ validation_result.errors = <<>>
    /\ validation_result.warnings # <<>>
    /\ validation_result.suggestions = <<>>

(***************************************************************************)
(* Properties of parse (SpecParse)                                         *)
(***************************************************************************)

\* what parse matches against: the prompt lowercased and trimmed
Normalized == Strip(Lower(prompt))

\* category i of a keyword table has a trigger inside the normalized prompt
Triggered(table, i) ==
    \E k \in 1..Len(table[i][2]) : Contains(Normalized, table[i][2][k])

\* parse returned an Intent
Parsed == pc = "parsed" /\ ~Raised(intent)

\* C11: primary_action is the first of create, add, modify, remove that has
\* a trigger substring in the normalized prompt, wherever the triggers stand
\* in the text, and create when none has; "update the login form" gives
\* action modify and ui_type form.
C11_FirstActionInTableOrder ==
    Parsed
        => /\ [i \in 1..Len(ACTION_TABLE) |-> ACTION_TABLE[i][1]]
                 = <<"create", "add", "modify", "remove">>
           /\ \A i \in 1..Len(ACTION_TABLE) :
                  (Triggered(ACTION_TABLE, i) /\ \A j \in 1..(i - 1) : ~Triggered(ACTION_TABLE, j))
                      => intent.primary_action = ACTION_TABLE[i][1]
           /\ (\A i \in 1..Len(ACTION_TABLE) : ~Triggered(ACTION_TABLE, i))
                  => intent.primary_action = "create"
           /\ prompt = "update the login form"
                  => (intent.primary_action = "modify" /\ intent.ui_type = "form")

C11_Witness ==
    /\ Parsed
    /\ prompt = "delete create"
    /\ intent.primary_action = "create"

\* C12: ui_type is the first of dashboard, form, table, card, navbar,
\* sidebar, modal, button, chart that has a trigger substring in the
\* normalized prompt; when none has, it is form if "input" and "button" both
\* appear, else dashboard if "card" or "kpi" appears, else generic.
C12_FirstUiTypeOrFallback ==
    Parsed
        => /\ [i \in 1..Len(UI_TYPES) |-> UI_TYPES[i][1]]
                 = <<"dashboard", "form", "table", "card", "navbar", "sidebar",
                     "modal", "button", "chart">>
           /\ \A i \in 1..Len(UI_TYPES) :
                  (Triggered(UI_TYPES, i) /\ \A j \in 1..(i - 1) : ~Triggered(UI_TYPES, j))
                      => intent.ui_type = UI_TYPES[i][1]
           /\ (\A i \in 1..Len(UI_TYPES) : ~Triggered(UI_TYPES, i))
                  => intent.ui_type =
                        IF Contains(Normalized, "input") /\ Contains(Normalized, "button")
                        THEN "form"
                        ELSE IF Contains(Normalized, "card") \/ Contains(Normalized, "kpi")
                        THEN "dashboard"
                        ELSE "generic"

C12_Witness ==
    /\ Parsed
    /\ prompt = "kpi something"
    /\ intent.ui_type = "dashboard"

\* C13: when no component category has a trigger in the prompt, components
\* is the fixed default list of the ui_type parse computed for that prompt;
\* "create something generic" gives ui_type generic and components [Card].
C13_DefaultComponentsOfUiType ==
    (Parsed /\ \A i \in 1..Len(COMPONENTS) : ~Triggered(COMPONENTS, i))
        => /\ intent.components =
                 CASE intent.ui_type = "dashboard" -> <<"Card", "Chart">>
                   [] intent.ui_type = "form"      -> <<"Input", "Button">>
                   [] intent.ui_type = "table"     -> <<"Table">>
                   [] intent.ui_type = "card"      -> <<"Card">>
                   [] intent.ui_type = "navbar"    -> <<"Navbar">>
                   [] intent.ui_type = "sidebar"   -> <<"Sidebar">>
                   [] intent.ui_type = "modal"     -> <<"Modal", "Button">>
                   [] intent.ui_type = "button"    -> <<"Button">>
                   [] intent.ui_type = "chart"     -> <<"Chart">>
                   [] OTHER                        -> <<"Card">>
           /\ prompt = "create something generic"
                  => (intent.ui_type = "generic" /\ intent.components = <<"Card">>)

C13_Witness ==
    /\ Parsed
    /\ prompt = "login kpi"
    /\ intent.ui_type = "form"
    /\ intent.components = <<"Input", "Button">>

\* C14: the components list of a parsed Intent is non-empty, has no
\* duplicates and holds only names of the eight component kinds.
C14_ComponentsFromVocabulary ==
    Parsed
        => /\ intent.components # <<>>
           /\ \A i, j \in 1..Len(intent.components) :
                  intent.components[i] = intent.components[j] => i = j
           /\ \A i \in 1..Len(intent.components) :
                  intent.components[i] \in {"Button", "Card", "Input", "Table", "Chart",
                                            "Navbar", "Sidebar", "Modal"}

C14_Witness ==
    /\ Parsed
    /\ prompt = "card button"
    /\ intent.components = <<"Button", "Card">>

\* C18: confidence, in tenths, is min(10, 5 + 1 if the action is not create
\* + 2 if the ui_type is not generic + 2 if components is non-empty); it lies
\* between 0 and 10 tenths and, components being non-empty after parse, is
\* never below 7 tenths.
C18_ConfidenceFormula ==
    Parsed
        => /\ \E score \in {5 + (IF intent.primary_action # "create" THEN 1 ELSE 0)
                               + (IF intent.ui_type # "generic" THEN 2 ELSE 0)
                               + (IF intent.components # <<>> THEN 2 ELSE 0)} :
                  intent.confidence = IF score > 10 THEN 10 ELSE score
           /\ intent.confidence \in 0..10
           /\ intent.confidence >= 7

C18_Witness ==
    /\ Parsed
    /\ prompt = "delete something"
    /\ intent.primary_action = "remove"
    /\ intent.ui_type = "generic"
    /\ intent.confidence = 8

(***************************************************************************)
(* Further properties of the request handling (Spec)                       *)
(***************************************************************************)

\* C15: what a request computes does not depend on the process that serves
\* it: under every string-hash seed create_plan gives the same imports, in
\* the same order, and the same reasoning, and generate the same text.
C15_SameInEveryProcess ==
    (pc = "validate")
        => \A seed \in HashSeeds :
              /\ create_plan(intent, seed).imports = plan.imports
              /\ create_plan(intent, seed).reasoning = plan.reasoning
              /\ generate(create_plan(intent, seed)) = code

\* C19: a request with a non-empty trimmed prompt never ends in the 500
\* outcome: every stage returns a result and the request is answered 200.
C19_NoServerError ==
    (pc = "done" /\ prompt # "") => response.status = 200

(***************************************************************************)
(* Properties of generate and validate together (SpecGenerate)             *)
(***************************************************************************)

\* C20: for every non-empty combination of the eight component kinds the
\* generated code passes validate with no errors.
C20_GeneratedCodeValidates ==
    (pc = "checked")
        => (validation_result.is_valid = TRUE /\ validation_result.errors = <<>>)

(***************************************************************************)
(* Properties of the planner's dicts (SpecFrame)                           *)
(***************************************************************************)

\* C16: whatever create_plan calls were made and whatever keys the caller
\* assigned in the container_props and props of the plans it got, the
\* containers of Planner.TEMPLATES are unchanged, and every create_plan for
\* the same Intent returned the same container_props and props as the first.
C16_TemplatesKeptAndCallsAgree ==
    /\ \A i \in 1..Len(TemplateNames) : heap[i] = TEMPLATES[TemplateNames[i]].container
    /\ \A m \in 1..Len(calls), n \in 1..Len(calls) :
          (m < n /\ calls[m].intent = calls[n].intent)
              => calls[n].returned = calls[m].returned

\* the caller assigned to the container_props and to the props of a plan it
\* got, and then planned the same Intent again
C16_Witness ==
    /\ Len(calls) >= 2
    /\ calls[1].intent = calls[2].intent
    /\ Deref(heap, calls[1].plan).container_props # calls[1].returned.container_props
    /\ Deref(heap, calls[1].plan).props # calls[1].returned.props
    /\ calls[2].edits >= 2

(***************************************************************************)
(* Properties of concurrent requests (SpecConcurrent)                      *)
(***************************************************************************)

\* C17: however the stage calls of the concurrent requests interleave, the
\* response each request ends with is one it gets when run alone, and the
\* dicts of the class tables keep their items.
C17_ConcurrentAsAlone ==
    /\ \A r \in Requests :
          running[r].pc = "done"
              => running[r].response \in running[r].alone
    /\ heap = ClassHeap

\* two requests with different prompts, both answered, one after the
\* repair; the first ended while the second was under way
C17_Witness ==
    /\ \A r \in Requests : running[r].pc = "done" /\ running[r].response.status = 200
    /\ running[1].overlapped
    /\ running[1].body # running[2].body
    /\ running[1].response.validation.is_valid # running[2].response.validation.is_valid


\* C22: when a component category has a trigger in the prompt, components
\* is the list of the triggered categories in the table order Button, Card,
\* Input, Table, Chart, Navbar, Sidebar, Modal, whatever the order of the
\* keywords in the prompt; a chart named before a card gives [Card, Chart].
C22_ComponentsInTableOrder ==
    (Parsed /\ \E i \in 1..Len(COMPONENTS) : Triggered(COMPONENTS, i))
        => /\ intent.components =
                 SelectSeq(<<"Button", "Card", "Input", "Table", "Chart", "Navbar",
                             "Sidebar", "Modal">>,
                           LAMBDA kind : \E i \in 1..Len(COMPONENTS) :
                                             COMPONENTS[i][1] = kind /\ Triggered(COMPONENTS, i))
           /\ prompt \in {"chart card", "a chart before a card"}
                  => intent.components = <<"Card", "Chart">>

C22_Witness ==
    /\ Parsed
    /\ prompt = "chart card"
    /\ intent.components = <<"Card", "Chart">>

\* C29: the "input and button" fallback never decides the ui_type: a prompt
\* containing "button" is resolved by the table, by the button category at
\* the latest; a prompt containing "card" is resolved by the table too, so
\* the second fallback gives dashboard only for prompts containing "kpi".
C29_FirstFallbackNeverDecides ==
    Parsed
        => /\ UiTypeRule(Normalized) # "input and button"
           /\ Contains(Normalized, "button")
                  => /\ UiTypeRule(Normalized) = "table"
                     /\ intent.ui_type \in {"dashboard", "form", "table", "card", "navbar",
                                             "sidebar", "modal", "button"}
           /\ Contains(Normalized, "card") => UiTypeRule(Normalized) = "table"
           /\ UiTypeRule(Normalized) = "card or kpi"
                  => (Contains(Normalized, "kpi") /\ intent.ui_type = "dashboard")

C29_Witness ==
    /\ Parsed
    /\ prompt = "input button"
    /\ intent.ui_type = "button"
    /\ UiTypeRule(Normalized) = "table"


\* C21: the copies of a stage compute the same function: for every prompt
\* the IntentParser.parse inlined in the other files returns the Intent that
\* src/intent_parser.py returns, modifiers.count included.
C21_ParseCopiesAgree ==
    Parsed => parse_inlined(prompt) = intent


(***************************************************************************)
(* Further properties of create_plan (SpecPlan)                            *)
(***************************************************************************)

\* C23: for an Intent with no components, create_plan emits, for each
\* default definition of the selected template in order, count plans of
\* that kind, with the variant of the definition (or 'default') and position
\* (i div 3, i mod 3), i restarting at 0 in each definition; the list has 5
\* entries for dashboard, 4 for form, 1 for table and navbar, and plans of
\* different definitions share a position.
C23_TemplateDefaults ==
    (pc = "planned" /\ intent.components = <<>>)
        => LET name == IF intent.ui_type \in {"dashboard", "form", "table", "navbar"}
                       THEN intent.ui_type ELSE "form"
               defs == TEMPLATES[name].default_components
               before[d \in 1..Len(defs)] ==
                   IF d = 1 THEN 0 ELSE before[d - 1] + defs[d - 1].count
           IN  /\ Len(plan.components) =
                     CASE name = "dashboard" -> 5 [] name = "form" -> 4 [] OTHER -> 1
               /\ \A d \in 1..Len(defs) : \A i \in 0..(defs[d].count - 1) :
                      /\ plan.components[before[d] + i + 1].type = defs[d].type
                      /\ plan.components[before[d] + i + 1].position =
                             [row |-> i \div 3, col |-> i % 3]
                      /\ plan.components[before[d] + i + 1].props.variant =
                             IF "variant" \in DOMAIN defs[d] THEN defs[d].variant ELSE "default"
               /\ name = "dashboard"
                      => /\ plan.components[1].type # plan.components[4].type
                         /\ plan.components[1].position = plan.components[4].position

C23_Witness ==
    /\ pc = "planned"
    /\ intent.ui_type = "dashboard"
    /\ intent.components = <<>>
    /\ Len(plan.components) = 5
    /\ plan.components[3].position = [row |-> 0, col |-> 2]
    /\ plan.components[4].position = [row |-> 0, col |-> 0]
    /\ plan.components[4].props.variant = "line"


\* C24: the props of a planned component are the fixed base defaults of its
\* kind (none for an unknown kind) overlaid with the variant, color and size
\* of the modifiers when present, each overwriting a base key of that name;
\* count and any other modifier key never appear in props, and all
\* components built from named components get the same variant, color, size.
C24_PropsAreBasePlusModifiers ==
    (pc = "planned" /\ intent.components # <<>>)
        => \A k \in 1..Len(plan.components) :
              LET props == plan.components[k].props
                  base  == base_props(plan.components[k].type, <<>>)
                  over  == {"variant", "color", "size"} \cap DOMAIN intent.modifiers
              IN  /\ DOMAIN props = DOMAIN base \cup over
                  /\ \A key \in over : props[key] = intent.modifiers[key]
                  /\ \A key \in DOMAIN base \ over : props[key] = base[key]
                  /\ "count" \notin DOMAIN props
                  /\ plan.components[k].type = "Widget" => DOMAIN props = over
                  /\ \A j \in 1..Len(plan.components) :
                         \A key \in over : plan.components[j].props[key] = props[key]

C24_Witness ==
    /\ pc = "planned"
    /\ intent.components = <<"Button", "Widget", "Card">>
    /\ intent.modifiers = [variant |-> "ghost", color |-> "red", size |-> "large", count |-> 2]
    /\ plan.components[1].props =
           [variant |-> "ghost", children |-> "Click me", color |-> "red", size |-> "large"]
    /\ plan.components[2].props = [variant |-> "ghost", color |-> "red", size |-> "large"]


\* C28: Intents that agree on ui_type, components and the variant, color and
\* size modifiers, and differ in primary_action, layout, confidence or
\* modifiers.count, give plans with the same layout_type, container_props,
\* components and imports, hence the same generated code; only the reasoning
\* differs. layout_type is the template's, whatever layout the Intent names.
C28_AdvisoryFieldsDoNotSteer ==
    (pc = "generated")
        => /\ plan.layout_type = SelectTemplate(intent.ui_type).layout
           /\ \A other \in Alike(intent) :
                  \E p \in {create_plan(other, hashSeed)} :
                      /\ p.layout_type = plan.layout_type
                      /\ p.container_props = plan.container_props
                      /\ p.components = plan.components
                      /\ p.imports = plan.imports
                      /\ generate(p) = code

C28_Witness ==
    /\ pc = "generated"
    /\ intent.components = <<"Card", "Table">>
    /\ intent.layout = "flex" /\ plan.layout_type = "grid"
    /\ \E other \in Alike(intent) :
          /\ other.layout = "split" /\ other.primary_action = "modify"
          /\ "count" \in DOMAIN other.modifiers
          /\ create_plan(other, hashSeed).reasoning # plan.reasoning
          /\ generate(create_plan(other, hashSeed)) = code


(***************************************************************************)
(* Properties of the emitted Table (SpecTable)                             *)
(***************************************************************************)

\* C26: the text emitted for a Table depends only on its columns: plans
\* that differ only in the Table's data (JSON values) give the same code, the code holds
\* the identifier data and none of the rows, and every column appears as a
\* { header, accessor } pair whose accessor is the column name in lower
\* case with each space replaced by an underscore.
C26_TableTextIgnoresData ==
    (pc = "rendered")
        => LET props   == plan.components[1].props
               columns == IF "columns" \in DOMAIN props THEN props.columns
                          ELSE <<"Column 1", "Column 2">>
               accessor(name) ==
                   CASE name = "Name" -> "name"
                     [] name = "First Name" -> "first_name"
                     [] name = "E Mail  Address" -> "e_mail__address"
                     [] name = "Column 1" -> "column_1"
                     [] name = "Column 2" -> "column_2"
           IN  /\ \A d \in TableData :
                      generate([plan EXCEPT !.components[1].props =
                                   [k \in DOMAIN props \cup {"data"} |->
                                       IF k = "data" THEN d ELSE props[k]]]) = code
               /\ Contains(code, "  data={data}\n")
               /\ \A row \in {"John Doe", "jane@example.com", "Ada", "36", "\"name\":"} :
                      ~Contains(code, row)
               /\ \A i \in 1..Len(columns) :
                      Contains(code, "{ header: \"" \o columns[i] \o "\", accessor: \""
                                     \o accessor(columns[i]) \o "\" }")

C26_Witness ==
    /\ pc = "rendered"
    /\ plan.components[1].props =
           [columns |-> <<"First Name", "E Mail  Address">>, data |-> TableSampleData]
    /\ Contains(code, "columns={[{ header: \"First Name\", accessor: \"first_name\" }, { header: \"E Mail  Address\", accessor: \"e_mail__address\" }]}")


(***************************************************************************)
(* Further properties of validate (SpecValidate)                           *)
(***************************************************************************)

\* C25: a code text with a <Button> opening tag that has no aria-label and
\* no visible text after it gets the suggestion "Add aria-label or text
\* content to buttons" from validate.
C25_BareButtonSuggestion ==
    (pc = "validated" /\ Contains(validated, "<Button></Button>"))
        => \E i \in 1..Len(validation_result.suggestions) :
              validation_result.suggestions[i] = "Add aria-label or text content to buttons"


(***************************************************************************)
(* Further properties of generate and validate together (SpecGenerate)     *)
(***************************************************************************)

\* C27: for code produced by generate, validating the text returned by
\* fix_common_issues gives exactly the errors of validating the code itself:
\* the repair turns no invalid result into a valid one, and the final
\* is_valid of the pipeline equals that of the first pass.
C27_RepairKeepsErrors ==
    (pc = "checked")
        => \E fixed \in {Repair(code, hashSeed)} :
              /\ fixed.validation_result.errors = validation_result.errors
              /\ fixed.validation_result.is_valid = validation_result.is_valid

C27_Witness ==
    /\ pc = "checked"
    /\ intent.components = <<"Card", "Table", "Modal">>
    /\ ~validation_result.is_valid
    /\ Repair(code, hashSeed).code # code
    /\ Repair(code, hashSeed).validation_result.errors = validation_result.errors


\* C30: validating the generated code of a plan gives a "Missing import for
\* component" warning exactly when the plan has a Modal and no Button, and
\* then for Button only; for every other plan each allowed component tag in
\* the code has its canonical import line in the code.
C30_MissingImportOnlyForModalButtons ==
    (pc = "checked")
        => LET kinds   == {plan.components[i].type : i \in 1..Len(plan.components)}
               missing == SelectSeq(validation_result.warnings,
                                    LAMBDA w : IsPrefix("Missing import for component", w))
           IN  IF "Modal" \in kinds /\ "Button" \notin kinds
               THEN missing = <<"Missing import for component: Button">>
               ELSE /\ missing = <<>>
                    /\ \A kind \in {"Button", "Card", "Input", "Table", "Chart", "Navbar",
                                      "Sidebar", "Modal"} :
                           Contains(code, "<" \o kind)
                               => Contains(code, "import " \o kind \o " from '@/components/ui/"
                                                 \o kind \o "';")

C30_Witness ==
    /\ pc = "checked"
    /\ intent.components = <<"Card", "Modal">>
    /\ Contains(code, "<Button variant=\"primary\">Save</Button>")
    /\ ~Contains(code, "import Button")
    /\ validation_result.warnings = <<"Missing import for component: Button">>

====
